---- MODULE Spec2Model ----
(* Model of the bookmark processor (src/src/bookmark_processor):            *)
(* the liveness fallback chain GET -> Headless, the per-bookmark flow        *)
(* process_bookmark_flow and its content helpers, the tag linter lint_tags,  *)
(* the batch flow process_all_bookmarks_flow with its concurrent tasks and   *)
(* save_results, the attempt_get_request and attempt_headless_browser tasks, *)
(* load_blessed_tags, the validation, saving and re-loading of tags and      *)
(* extract_main_content on their own, and the liveness_flow of the earlier   *)
(* prototype (src/bookmark-processor).                                       *)
EXTENDS FiniteSets, Integers, Sequences, TLC

VARIABLES
    input_bookmark,        \* the bookmark as handed to process_bookmark_flow
    bookmark,              \* the bookmark object the flow mutates and returns
    blessed_tags_set,      \* the set handed to process_bookmark_flow
    pc,                    \* position in process_bookmark_flow / liveness_flow
    get_result,            \* what attempt_get_request returned to _perform_get_check
    headless_result,       \* what attempt_headless_browser returned
    get_check_result,      \* liveness_flow's local of the same name
    headless_check_result, \* liveness_flow's local of the same name
    liveness_result,       \* process_bookmark_flow's local of the same name
    calls,                 \* the collaborator calls made so far, in order
    unit_ret,              \* return value of a helper called on its own
    text_source,           \* the text_source a content helper got or computed
    batch_pc,              \* position in process_all_bookmarks_flow
    data,                  \* the records load_bookmarks returned
    bookmarks,             \* the validated Bookmark objects, one per record
    submitted,             \* number of process_bookmark_flow tasks submitted
    task_pc,               \* position of each submitted task
    task_get,              \* what attempt_get_request returned in each task
    task_headless,         \* what attempt_headless_browser returned in each task
    task_liveness,         \* each task's liveness_result
    completed,             \* the task indices in the order the tasks finished
    results,               \* the results list built from the futures
    saved,                 \* the lists handed to save_results, one per call
    output_data,           \* the records save_results wrote to the output file
    fetch_pc,              \* position in a call of the attempt_get_request task
    fetch_url,             \* the url argument of that call
    fetch_attempt,         \* number of the running attempt (1 + retries so far)
    fetch_net,             \* how the network behaved in the running attempt
    fetch_ret,             \* what the task call returned to its caller
    render_pc,             \* position in a call of attempt_headless_browser
    render_url,            \* the url argument of that call
    h_response,            \* its local response, what page.goto returned
    h_content,             \* its local content, what page.content() returned
    h_final_url,           \* its local final_url, the value of page.url
    h_status_code,         \* its local status_code
    render_pending,        \* how control left the inner try block
    raised_in,             \* the call that raised the latest exception, if any
    render_ret,            \* what the call returned to its caller
    playwright_running,    \* inside the with block of sync_playwright()
    browser_launched,      \* chromium.launch returned a browser
    context_created,       \* browser.new_context returned a context
    context_close_calls,   \* calls of context.close() made
    browser_close_calls,   \* calls of browser.close() made
    proto_pc,              \* position in the prototype's liveness_flow
    proto_url,             \* its url argument
    head_result,           \* what the prototype's attempt_head_request gave
    proto_get_result,      \* what the prototype's attempt_get_request gave
    proto_headless_result, \* what the prototype's attempt_headless_browser gave
    proto_liveness_result, \* the LivenessResult the prototype flow returned
    pure_pc,               \* which function is called on its own, and how far
    blessed_file,          \* the blessed-tags file: its lines, or missing
    loaded_tags,           \* what load_blessed_tags returned
    stored_tags,           \* the tags value of a stored record
    validated_tags,        \* Bookmark.tags after model_validate
    written_tags,          \* the tags value save_results wrote
    reloaded_tags,         \* Bookmark.tags after loading what was written
    html_doc,              \* the parsed document extract_main_content works on
    extracted              \* what extract_main_content returned

flow_vars == <<input_bookmark, bookmark, blessed_tags_set, pc, get_result,
               headless_result, get_check_result, headless_check_result,
               liveness_result, calls, unit_ret, text_source>>

batch_vars == <<batch_pc, data, bookmarks, submitted, task_pc, task_get,
                task_headless, task_liveness, completed, results, saved,
                output_data>>

batch_vars_but_pc == <<data, bookmarks, submitted, task_pc, task_get,
                       task_headless, task_liveness, completed, results,
                       saved, output_data>>

fetch_vars == <<fetch_pc, fetch_url, fetch_attempt, fetch_net, fetch_ret>>

render_vars == <<render_pc, render_url, h_response, h_content, h_final_url,
                 h_status_code, render_pending, raised_in, render_ret,
                 playwright_running, browser_launched, context_created,
                 context_close_calls, browser_close_calls>>

proto_vars == <<proto_pc, proto_url, head_result, proto_get_result,
                proto_headless_result, proto_liveness_result>>

pure_vars == <<pure_pc, blessed_file, loaded_tags, stored_tags, validated_tags,
               written_tags, reloaded_tags, html_doc, extracted>>

vars == <<flow_vars, batch_vars, fetch_vars, render_vars, proto_vars,
          pure_vars>>

-----------------------------------------------------------------------------
(* Bounds and value domains                                                  *)

MaxTags == 3

\* Python's None for an Optional[str]; no URL, content or tag has this value
None == "None"
\* Python's None for LivenessResult.status_code (Optional[int])
NoStatus == 0

Urls == {"http://a.example/x", "http://a.example/y"}
Contents == {"", "<html>A</html>"}
Extendeds == {"", "Hi"}
InputTags == {"old", "junk", "data:offline"}
BlessedUniverse == {"old", "new", "data:offline"}

Range(s) == {s[i] : i \in DOMAIN s}
TagLists == UNION {[1..n -> InputTags] : n \in 0..MaxTags}

\* return values of a collaborator: None, a result dict, or a raised exception
NoneDict == [kind |-> "None"]
Raised == [kind |-> "raise"]
NotCalled == [kind |-> "not called"]
ResultDict(f, c, s) ==
    [kind |-> "dict", final_url |-> f, content |-> c, status_code |-> s]

\* attempt_get_request: a dict only after raise_for_status() passed
GetResults ==
    {NoneDict, Raised} \cup
    {ResultDict(f, c, s) : f \in Urls, c \in Contents, s \in {200, 204}}

\* attempt_headless_browser: status 200 if content else None without response
HeadlessResults ==
    {NoneDict, Raised} \cup
    {ResultDict(f, c, 200) : f \in Urls, c \in Contents} \cup
    {ResultDict(f, "", NoStatus) : f \in Urls}

\* an Optional[LivenessResult] that is None
NoResult == [kind |-> "None"]

LivenessResult(u, live, status, m, f, c) ==
    [kind |-> "LivenessResult", url |-> u, is_live |-> live,
     status_code |-> status, method |-> m, final_url |-> f, content |-> c]

-----------------------------------------------------------------------------
(* liveness_flow and its helpers                                             *)

_perform_get_check_no_return(url, r) == NoResult

_perform_get_check_no_except(url, r) ==
    IF r.kind = "dict"
    THEN LivenessResult(url, TRUE, r.status_code, "GET", r.final_url, r.content)
    ELSE IF r = Raised THEN Raised
    ELSE NoResult

_perform_get_check(url, r) ==
    IF r.kind = "dict"
    THEN LivenessResult(url, TRUE, r.status_code, "GET", r.final_url, r.content)
    ELSE NoResult

_perform_headless_check_no_return(url, r) == NoResult

_perform_headless_check_mixed(url, r) ==
    IF r.kind = "dict"
    THEN LivenessResult(url, TRUE, r.status_code, "HEADLESS", url, r.content)
    ELSE NoResult

_perform_headless_check(url, r) ==
    IF r.kind = "dict"
    THEN LivenessResult(url, TRUE, r.status_code, "HEADLESS", r.final_url,
                        r.content)
    ELSE NoResult

all_checks_failed_keeps_url(url) ==
    LivenessResult(url, FALSE, NoStatus, "NONE", url, None)

all_checks_failed(url) ==
    LivenessResult(url, FALSE, NoStatus, "NONE", None, None)

\* no batch is running
BatchIdle ==
    /\ batch_pc = "idle"
    /\ data = <<>>
    /\ bookmarks = <<>>
    /\ submitted = 0
    /\ task_pc = <<>>
    /\ task_get = <<>>
    /\ task_headless = <<>>
    /\ task_liveness = <<>>
    /\ completed = <<>>
    /\ results = <<>>
    /\ saved = <<>>
    /\ output_data = <<>>

\* no attempt_get_request call is being followed
FetchIdle ==
    /\ fetch_pc = "idle"
    /\ fetch_url = None
    /\ fetch_attempt = 0
    /\ fetch_net = [kind |-> "none"]
    /\ fetch_ret = NotCalled

\* no attempt_headless_browser call is being followed
RenderIdle ==
    /\ render_pc = "idle"
    /\ render_url = None
    /\ h_response = NotCalled
    /\ h_content = None
    /\ h_final_url = None
    /\ h_status_code = NoStatus
    /\ render_pending = NotCalled
    /\ raised_in = None
    /\ render_ret = NotCalled
    /\ playwright_running = FALSE
    /\ browser_launched = FALSE
    /\ context_created = FALSE
    /\ context_close_calls = 0
    /\ browser_close_calls = 0

\* the prototype's liveness_flow is not being followed
ProtoIdle ==
    /\ proto_pc = "idle"
    /\ proto_url = None
    /\ head_result = NotCalled
    /\ proto_get_result = NotCalled
    /\ proto_headless_result = NotCalled
    /\ proto_liveness_result = NoResult

\* no function is being called on its own
PureIdle ==
    /\ pure_pc = "idle"
    /\ blessed_file = [kind |-> "missing", text |-> <<>>]
    /\ loaded_tags = {}
    /\ stored_tags = NoneDict
    /\ validated_tags = <<>>
    /\ written_tags = <<>>
    /\ reloaded_tags = <<>>
    /\ html_doc = NoneDict
    /\ extracted = <<>>

InitAt(start) ==
    /\ BatchIdle
    /\ FetchIdle
    /\ RenderIdle
    /\ ProtoIdle
    /\ PureIdle
    /\ input_bookmark \in [href : Urls, extended : Extendeds, tags : TagLists]
    /\ bookmark = input_bookmark
    /\ blessed_tags_set \in SUBSET BlessedUniverse
    /\ pc = start
    /\ get_result = NotCalled
    /\ headless_result = NotCalled
    /\ get_check_result = NoResult
    /\ headless_check_result = NoResult
    /\ liveness_result = NoResult
    /\ calls = <<>>
    /\ unit_ret = <<>>
    /\ text_source = None

\* a bookmark handed to process_bookmark_flow with a blessed-tag set
Init == InitAt("start")

\* process_bookmark_flow calls liveness_flow(bookmark.href), which first
\* runs _perform_get_check(url)
PerformGetCheck ==
    /\ pc = "start"
    /\ \E r \in GetResults :
        /\ get_result' = r
        /\ get_check_result' = _perform_get_check(bookmark.href, r)
    /\ calls' = Append(calls, "attempt_get_request")
    /\ pc' = "get_checked"
    /\ UNCHANGED <<batch_vars, fetch_vars, render_vars, proto_vars, pure_vars>>
    /\ UNCHANGED <<input_bookmark, bookmark, blessed_tags_set, headless_result,
                   headless_check_result, liveness_result, unit_ret, text_source>>

\* if get_check_result: return get_check_result
ReturnGetCheckResult ==
    /\ pc = "get_checked"
    /\ get_check_result # NoResult
    /\ liveness_result' = get_check_result
    /\ pc' = "liveness_returned"
    /\ UNCHANGED <<batch_vars, fetch_vars, render_vars, proto_vars, pure_vars>>
    /\ UNCHANGED <<input_bookmark, bookmark, blessed_tags_set, get_result,
                   headless_result, get_check_result, headless_check_result,
                   calls, unit_ret, text_source>>

\* otherwise liveness_flow runs _perform_headless_check(url)
PerformHeadlessCheck ==
    /\ pc = "get_checked"
    /\ get_check_result = NoResult
    /\ \E r \in HeadlessResults :
        /\ headless_result' = r
        /\ headless_check_result' = _perform_headless_check(bookmark.href, r)
    /\ calls' = Append(calls, "attempt_headless_browser")
    /\ pc' = "headless_checked"
    /\ UNCHANGED <<batch_vars, fetch_vars, render_vars, proto_vars, pure_vars>>
    /\ UNCHANGED <<input_bookmark, bookmark, blessed_tags_set, get_result,
                   get_check_result, liveness_result, unit_ret, text_source>>

\* if headless_check_result: return headless_check_result
ReturnHeadlessCheckResult ==
    /\ pc = "headless_checked"
    /\ headless_check_result # NoResult
    /\ liveness_result' = headless_check_result
    /\ pc' = "liveness_returned"
    /\ UNCHANGED <<batch_vars, fetch_vars, render_vars, proto_vars, pure_vars>>
    /\ UNCHANGED <<input_bookmark, bookmark, blessed_tags_set, get_result,
                   headless_result, get_check_result, headless_check_result,
                   calls, unit_ret, text_source>>

\* all liveness checks failed: return the NONE result
ReturnAllChecksFailed ==
    /\ pc = "headless_checked"
    /\ headless_check_result = NoResult
    /\ liveness_result' = all_checks_failed(bookmark.href)
    /\ pc' = "liveness_returned"
    /\ UNCHANGED <<batch_vars, fetch_vars, render_vars, proto_vars, pure_vars>>
    /\ UNCHANGED <<input_bookmark, bookmark, blessed_tags_set, get_result,
                   headless_result, get_check_result, headless_check_result,
                   calls, unit_ret, text_source>>

-----------------------------------------------------------------------------
(* process_bookmark_flow after liveness_flow has returned                    *)

\* Python truthiness of an Optional[str]
Truthy(v) == v # None /\ v # ""

UpdateHrefOnRedirect_tag_only ==
    /\ pc = "liveness_returned"
    /\ IF Truthy(liveness_result.final_url)
          /\ liveness_result.final_url # bookmark.href
       THEN bookmark' = [bookmark EXCEPT
                            !.tags = Append(@, "data:redirected")]
       ELSE UNCHANGED bookmark
    /\ pc' = "redirect_checked"
    /\ UNCHANGED <<batch_vars, fetch_vars, render_vars, proto_vars, pure_vars>>
    /\ UNCHANGED <<input_bookmark, blessed_tags_set, get_result,
                   headless_result, get_check_result, headless_check_result,
                   liveness_result, calls, unit_ret, text_source>>

UpdateHrefOnRedirect_no_compare ==
    /\ pc = "liveness_returned"
    /\ IF Truthy(liveness_result.final_url)
       THEN bookmark' = [bookmark EXCEPT
                            !.href = liveness_result.final_url,
                            !.tags = Append(@, "data:redirected")]
       ELSE UNCHANGED bookmark
    /\ pc' = "redirect_checked"
    /\ UNCHANGED <<batch_vars, fetch_vars, render_vars, proto_vars, pure_vars>>
    /\ UNCHANGED <<input_bookmark, blessed_tags_set, get_result,
                   headless_result, get_check_result, headless_check_result,
                   liveness_result, calls, unit_ret, text_source>>

\* update href to the final URL and append "data:redirected" on a redirect
UpdateHrefOnRedirect ==
    /\ pc = "liveness_returned"
    /\ IF Truthy(liveness_result.final_url)
          /\ liveness_result.final_url # bookmark.href
       THEN bookmark' = [bookmark EXCEPT
                            !.href = liveness_result.final_url,
                            !.tags = Append(@, "data:redirected")]
       ELSE UNCHANGED bookmark
    /\ pc' = "redirect_checked"
    /\ UNCHANGED <<batch_vars, fetch_vars, render_vars, proto_vars, pure_vars>>
    /\ UNCHANGED <<input_bookmark, blessed_tags_set, get_result,
                   headless_result, get_check_result, headless_check_result,
                   liveness_result, calls, unit_ret, text_source>>

-----------------------------------------------------------------------------
(* lint_tags                                                                 *)

RECURSIVE lint_tags_loop(_, _, _)
\* the for loop of lint_tags: append each tag that is in blessed_tags
lint_tags_loop(tags, blessed_tags, linted_tags) ==
    IF tags = <<>>
    THEN linted_tags
    ELSE lint_tags_loop(Tail(tags), blessed_tags,
                        IF Head(tags) \in blessed_tags
                        THEN Append(linted_tags, Head(tags))
                        ELSE linted_tags)

lint_tags_no_empty_check(tags, blessed_tags) ==
    lint_tags_loop(tags, blessed_tags, <<>>)

lint_tags(tags, blessed_tags) ==
    IF blessed_tags = {}
    THEN tags
    ELSE lint_tags_loop(tags, blessed_tags, <<>>)

-----------------------------------------------------------------------------
(* strings as sequences of one-character strings                             *)

Whitespace == {" ", "\n"}

RECURSIVE lstrip(_)
lstrip(s) ==
    IF s # <<>> /\ Head(s) \in Whitespace THEN lstrip(Tail(s)) ELSE s

RECURSIVE rstrip(_)
rstrip(s) ==
    IF s # <<>> /\ s[Len(s)] \in Whitespace
    THEN rstrip(SubSeq(s, 1, Len(s) - 1))
    ELSE s

\* str.strip()
strip(s) == rstrip(lstrip(s))

RECURSIVE str_join(_, _)
\* sep.join(strings)
str_join(sep, strings) ==
    IF strings = <<>> THEN <<>>
    ELSE IF Len(strings) = 1 THEN strings[1]
    ELSE strings[1] \o sep \o str_join(sep, Tail(strings))

RECURSIVE Str(_)
\* the string of a sequence of characters
Str(chars) == IF chars = <<>> THEN "" ELSE Head(chars) \o Str(Tail(chars))

-----------------------------------------------------------------------------
(* content helpers of process_bookmark_flow                                  *)

\* markup whose body holds nothing but a nav element
NavOnly == "<html><body><nav>N</nav></body></html>"

\* the nodes of a parsed document: strings and elements
Text(t) == [tag |-> "#text", text |-> t, kids |-> <<>>]
Element(name, kids) == [tag |-> name, text |-> <<>>, kids |-> kids]

\* what the lxml parser builds around the content of a body
Document(body_kids) ==
    Element("[document]",
        <<Element("html",
            <<Element("head", <<Element("title", <<Text(<<"T">>)>>)>>),
              Element("body", body_kids)>>)>>)

\* the parser on markup without any content: no html, no body
EmptyDocument == Element("[document]", <<>>)

\* BeautifulSoup(html_content, "lxml") on the markups of the flows
BeautifulSoup(html_content) ==
    CASE html_content = "<html>A</html>" ->
            Document(<<Element("p", <<Text(<<"A">>)>>)>>)
      [] html_content = NavOnly ->
            Document(<<Element("nav", <<Text(<<"N">>)>>)>>)
      [] OTHER -> EmptyDocument

\* the names given to soup(...) for removal
Removed == {"script", "style", "header", "footer", "nav"}

RECURSIVE decompose(_)
\* the children left after every element of a removed name is decomposed
decompose(kids) ==
    IF kids = <<>> THEN <<>>
    ELSE IF Head(kids).tag \in Removed THEN decompose(Tail(kids))
    ELSE <<[Head(kids) EXCEPT !.kids = decompose(@)]>>
         \o decompose(Tail(kids))

RECURSIVE find(_, _)
\* Tag.find(name): the first descendant of that name in document order
find(kids, name) ==
    IF kids = <<>> THEN NoneDict
    ELSE IF Head(kids).tag = name THEN Head(kids)
    ELSE LET inner == find(Head(kids).kids, name)
         IN  IF inner # NoneDict THEN inner ELSE find(Tail(kids), name)

RECURSIVE strings(_)
\* the strings below a node, in document order
strings(kids) ==
    IF kids = <<>> THEN <<>>
    ELSE (IF Head(kids).tag = "#text" THEN <<Head(kids).text>>
          ELSE strings(Head(kids).kids))
         \o strings(Tail(kids))

\* Tag.get_text(separator=" ", strip=True): each string stripped, the empty
\* ones dropped, the rest joined
get_text(node) ==
    LET all == strings(node.kids)
        stripped == [i \in DOMAIN all |-> strip(all[i])]
    IN  str_join(<<" ">>, SelectSeq(stripped, LAMBDA t : t # <<>>))

main_content_main_first(soup) ==
    LET kids == decompose(soup.kids)
    IN  IF find(kids, "main") # NoneDict
        THEN get_text(find(kids, "main"))
        ELSE IF find(kids, "article") # NoneDict
        THEN get_text(find(kids, "article"))
        ELSE IF find(kids, "body") # NoneDict
        THEN get_text(find(kids, "body"))
        ELSE <<>>

\* extract_main_content from the parsed document on
main_content(soup) ==
    LET kids == decompose(soup.kids)
    IN  IF find(kids, "article") # NoneDict
        THEN get_text(find(kids, "article"))
        ELSE IF find(kids, "main") # NoneDict
        THEN get_text(find(kids, "main"))
        ELSE IF find(kids, "body") # NoneDict
        THEN get_text(find(kids, "body"))
        ELSE <<>>

extract_main_content(html_content) ==
    Str(main_content(BeautifulSoup(html_content)))

\* the text-generation collaborators, as functions of the text
summarize_content(text) == "summary of " \o text
suggest_tags(text) == IF text = "A" THEN <<"new", "junk">> ELSE <<"old">>

\* what attempt_get_request can return to the direct GET
DirectGetResults ==
    GetResults \cup {ResultDict(f, NavOnly, 200) : f \in Urls}

_get_and_extract_content_source_content_first(b, lr, g) ==
    IF lr.content # None
    THEN [text_source |-> extract_main_content(lr.content),
          calls |-> <<"extract_main_content">>, get_result |-> NotCalled]
    ELSE IF b.extended # ""
    THEN [text_source |-> b.extended, calls |-> <<>>,
          get_result |-> NotCalled]
    ELSE IF g.kind = "dict" /\ g.content # None
    THEN [text_source |-> extract_main_content(g.content),
          calls |-> <<"attempt_get_request", "extract_main_content">>,
          get_result |-> g]
    ELSE [text_source |-> None, calls |-> <<"attempt_get_request">>,
          get_result |-> g]

\* g is what attempt_get_request returns if the direct GET is made; the
\* result holds the returned text_source and the collaborator calls made
_get_and_extract_content_source(b, lr, g) ==
    IF b.extended # ""
    THEN [text_source |-> b.extended, calls |-> <<>>,
          get_result |-> NotCalled]
    ELSE IF lr.content # None
    THEN [text_source |-> extract_main_content(lr.content),
          calls |-> <<"extract_main_content">>, get_result |-> NotCalled]
    ELSE IF g.kind = "dict" /\ g.content # None
    THEN [text_source |-> extract_main_content(g.content),
          calls |-> <<"attempt_get_request", "extract_main_content">>,
          get_result |-> g]
    ELSE [text_source |-> None, calls |-> <<"attempt_get_request">>,
          get_result |-> g]

_summarize_and_update_extended_always(b, text) ==
    IF Truthy(text)
    THEN [bookmark |-> [b EXCEPT !.extended = summarize_content(text)],
          calls |-> <<"summarize_content">>]
    ELSE [bookmark |-> b, calls |-> <<>>]

_summarize_and_update_extended(b, text) ==
    IF Truthy(text) /\ b.extended = ""
    THEN [bookmark |-> [b EXCEPT !.extended = summarize_content(text)],
          calls |-> <<"summarize_content">>]
    ELSE [bookmark |-> b, calls |-> <<>>]

\* the order of Python's str comparison on the tags that occur
TagRank(t) ==
    CASE t = "data:offline" -> 1
      [] t = "data:redirected" -> 2
      [] t = "junk" -> 3
      [] t = "new" -> 4
      [] t = "old" -> 5

RECURSIVE sorted(_)
\* sorted(list(all_tags)) of a set of tags
sorted(all_tags) ==
    IF all_tags = {} THEN <<>>
    ELSE LET least == CHOOSE t \in all_tags :
                          \A u \in all_tags : TagRank(t) <= TagRank(u)
         IN  <<least>> \o sorted(all_tags \ {least})

_suggest_and_add_new_tags_extend(b, text) ==
    IF Truthy(text)
    THEN [bookmark |-> [b EXCEPT !.tags = @ \o suggest_tags(text)],
          calls |-> <<"suggest_tags">>]
    ELSE [bookmark |-> b, calls |-> <<>>]

_suggest_and_add_new_tags(b, text) ==
    IF Truthy(text)
    THEN [bookmark |->
              [b EXCEPT !.tags = sorted(Range(@)
                                            \cup Range(suggest_tags(text)))],
          calls |-> <<"suggest_tags">>]
    ELSE [bookmark |-> b, calls |-> <<>>]

-----------------------------------------------------------------------------

ReturnNotLive_lint_after_marker ==
    /\ pc = "redirect_checked"
    /\ ~liveness_result.is_live
    /\ bookmark' = [bookmark EXCEPT
                       !.tags = lint_tags(Append(@, "data:offline"),
                                          blessed_tags_set)]
    /\ pc' = "done"
    /\ UNCHANGED <<batch_vars, fetch_vars, render_vars, proto_vars, pure_vars>>
    /\ UNCHANGED <<input_bookmark, blessed_tags_set, get_result,
                   headless_result, get_check_result, headless_check_result,
                   liveness_result, calls, unit_ret, text_source>>

ReturnNotLive_after_content_steps ==
    /\ pc = "redirect_checked"
    /\ ~liveness_result.is_live
    /\ bookmark' = [bookmark EXCEPT !.tags = Append(@, "data:offline")]
    /\ calls' = Append(calls, IF bookmark.extended = ""
                              THEN "attempt_get_request"
                              ELSE "suggest_tags")
    /\ pc' = "done"
    /\ UNCHANGED <<batch_vars, fetch_vars, render_vars, proto_vars, pure_vars>>
    /\ UNCHANGED <<input_bookmark, blessed_tags_set, get_result,
                   headless_result, get_check_result, headless_check_result,
                   liveness_result, unit_ret, text_source>>

\* if not liveness_result.is_live: append "data:offline" and return
ReturnNotLive ==
    /\ pc = "redirect_checked"
    /\ ~liveness_result.is_live
    /\ bookmark' = [bookmark EXCEPT !.tags = Append(@, "data:offline")]
    /\ pc' = "done"
    /\ UNCHANGED <<batch_vars, fetch_vars, render_vars, proto_vars, pure_vars>>
    /\ UNCHANGED <<input_bookmark, blessed_tags_set, get_result,
                   headless_result, get_check_result, headless_check_result,
                   liveness_result, calls, unit_ret, text_source>>

\* live bookmark: steps 2 to 5 are commented out, the bookmark is returned
ReturnLive ==
    /\ pc = "redirect_checked"
    /\ liveness_result.is_live
    /\ pc' = "done"
    /\ UNCHANGED <<batch_vars, fetch_vars, render_vars, proto_vars, pure_vars>>
    /\ UNCHANGED <<input_bookmark, bookmark, blessed_tags_set, get_result,
                   headless_result, get_check_result, headless_check_result,
                   liveness_result, calls, unit_ret, text_source>>

Next ==
    \/ PerformGetCheck
    \/ ReturnGetCheckResult
    \/ PerformHeadlessCheck
    \/ ReturnHeadlessCheckResult
    \/ ReturnAllChecksFailed
    \/ UpdateHrefOnRedirect
    \/ ReturnNotLive
    \/ ReturnLive

Spec == Init /\ [][Next]_vars

-----------------------------------------------------------------------------
(* lint_tags called on its own with a tag list and a blessed set             *)

InitUnit == InitAt("unit")

CallLintTags ==
    /\ pc = "unit"
    /\ unit_ret' = lint_tags(bookmark.tags, blessed_tags_set)
    /\ pc' = "lint_tags returned"
    /\ UNCHANGED <<batch_vars, fetch_vars, render_vars, proto_vars, pure_vars>>
    /\ UNCHANGED <<input_bookmark, bookmark, blessed_tags_set, get_result,
                   headless_result, get_check_result, headless_check_result,
                   liveness_result, calls, text_source>>

\* the text_source arguments the content helpers are called with
TextSources == {None, "", "A", "Hi"}

\* _get_and_extract_content_source(bookmark, liveness_result) with a live
\* GET result whose content is None or markup
CallGetAndExtractContentSource ==
    /\ pc = "unit"
    /\ \E c \in Contents \cup {None}, g \in DirectGetResults :
        LET lr == LivenessResult(bookmark.href, TRUE, 200, "GET",
                                 bookmark.href, c)
            r == _get_and_extract_content_source(bookmark, lr, g)
        IN  /\ liveness_result' = lr
            /\ get_result' = r.get_result
            /\ calls' = r.calls
            /\ text_source' = r.text_source
            /\ unit_ret' = r.text_source
    /\ pc' = "_get_and_extract_content_source returned"
    /\ UNCHANGED <<batch_vars, fetch_vars, render_vars, proto_vars, pure_vars>>
    /\ UNCHANGED <<input_bookmark, bookmark, blessed_tags_set,
                   headless_result, get_check_result, headless_check_result>>

\* _summarize_and_update_extended(bookmark, text_source)
CallSummarizeAndUpdateExtended ==
    /\ pc = "unit"
    /\ \E t \in TextSources :
        LET r == _summarize_and_update_extended(bookmark, t)
        IN  /\ text_source' = t
            /\ bookmark' = r.bookmark
            /\ calls' = r.calls
    /\ pc' = "_summarize_and_update_extended returned"
    /\ UNCHANGED <<batch_vars, fetch_vars, render_vars, proto_vars, pure_vars>>
    /\ UNCHANGED <<input_bookmark, blessed_tags_set, get_result,
                   headless_result, get_check_result, headless_check_result,
                   liveness_result, unit_ret>>

\* _suggest_and_add_new_tags(bookmark, text_source)
CallSuggestAndAddNewTags ==
    /\ pc = "unit"
    /\ \E t \in TextSources :
        LET r == _suggest_and_add_new_tags(bookmark, t)
        IN  /\ text_source' = t
            /\ bookmark' = r.bookmark
            /\ calls' = r.calls
    /\ pc' = "_suggest_and_add_new_tags returned"
    /\ UNCHANGED <<batch_vars, fetch_vars, render_vars, proto_vars, pure_vars>>
    /\ UNCHANGED <<input_bookmark, blessed_tags_set, get_result,
                   headless_result, get_check_result, headless_check_result,
                   liveness_result, unit_ret>>

NextUnit ==
    \/ CallLintTags
    \/ CallGetAndExtractContentSource
    \/ CallSummarizeAndUpdateExtended
    \/ CallSuggestAndAddNewTags

SpecUnit == InitUnit /\ [][NextUnit]_vars

\* process_bookmark_flow and the helpers called on their own, together
InitAll == Init \/ InitUnit
NextAll == Next \/ NextUnit
SpecAll == InitAll /\ [][NextAll]_vars

-----------------------------------------------------------------------------
(* process_bookmark_flow as a function of the bookmark and of what the two   *)
(* liveness collaborators return for its href                                *)

liveness_flow(url, g, h) ==
    LET get_check == _perform_get_check(url, g)
    IN  IF get_check # NoResult THEN get_check
        ELSE LET headless_check == _perform_headless_check(url, h)
             IN  IF headless_check # NoResult THEN headless_check
                 ELSE all_checks_failed(url)

update_href_on_redirect_rehash(b, lr) ==
    IF Truthy(lr.final_url) /\ lr.final_url # b.href
    THEN [b EXCEPT !.href = lr.final_url,
                   !.hash = "hash of " \o lr.final_url,
                   !.tags = Append(@, "data:redirected")]
    ELSE b

update_href_on_redirect(b, lr) ==
    IF Truthy(lr.final_url) /\ lr.final_url # b.href
    THEN [b EXCEPT !.href = lr.final_url,
                   !.tags = Append(@, "data:redirected")]
    ELSE b

mark_offline_and_return(b, lr) ==
    IF ~lr.is_live
    THEN [b EXCEPT !.tags = Append(@, "data:offline")]
    ELSE b

process_bookmark_flow(b, g, h) ==
    LET lr == liveness_flow(b.href, g, h)
    IN  mark_offline_and_return(update_href_on_redirect(b, lr), lr)

-----------------------------------------------------------------------------
(* process_all_bookmarks_flow                                                *)

MaxBookmarks == 2

\* the hash field of the record at position i of the input file
Hash(i) == "h" \o ToString(i)

\* a stored record that fails Bookmark.model_validate (no href)
Malformed == [valid |-> FALSE]

BatchTagLists == {<<>>, <<"old">>}
BatchRecords ==
    {[valid |-> TRUE, href |-> u, extended |-> "", tags |-> t] :
        u \in Urls, t \in BatchTagLists} \cup {Malformed}

\* the record stored at position i of the input file: the fields above and
\* the description and passthrough fields, which differ from record to record
Stored(r, i) ==
    IF r.valid
    THEN [valid |-> TRUE, href |-> r.href,
          description |-> "description " \o ToString(i),
          extended |-> r.extended, meta |-> "meta " \o ToString(i),
          hash |-> Hash(i), time |-> "time " \o ToString(i),
          shared |-> IF i % 2 = 1 THEN "yes" ELSE "no",
          toread |-> IF i % 2 = 1 THEN "no" ELSE "yes", tags |-> r.tags]
    ELSE r

DataLists ==
    UNION {{[i \in 1..n |-> Stored(f[i], i)] : f \in [1..n -> BatchRecords]} :
              n \in 0..MaxBookmarks}

\* what the liveness collaborators return inside a task
TaskGetResults ==
    {NoneDict, ResultDict("http://a.example/y", "<html>A</html>", 200)}
TaskHeadlessResults ==
    {NoneDict, ResultDict("http://a.example/y", "<html>A</html>", 200)}

\* Bookmark.model_validate(item) of a well-formed record
Bookmark(item) ==
    [href |-> item.href, description |-> item.description,
     extended |-> item.extended, meta |-> item.meta, hash |-> item.hash,
     time |-> item.time, shared |-> item.shared, toread |-> item.toread,
     tags |-> item.tags]

RECURSIVE JoinTags(_)
\* " ".join(bookmark_dict["tags"])
JoinTags(tags) ==
    IF tags = <<>> THEN ""
    ELSE IF Len(tags) = 1 THEN tags[1]
    ELSE tags[1] \o " " \o JoinTags(Tail(tags))

\* the output_data list of save_results: model_dump of the fields of
\* fields_to_include, the tags joined into one string
save_results(res) ==
    [i \in DOMAIN res |->
        [href |-> res[i].href, description |-> res[i].description,
         extended |-> res[i].extended, meta |-> res[i].meta,
         hash |-> res[i].hash, time |-> res[i].time,
         shared |-> res[i].shared, toread |-> res[i].toread,
         tags |-> JoinTags(res[i].tags)]]

\* process_bookmark_flow is not being followed step by step
FlowIdle ==
    /\ input_bookmark = [href |-> None, extended |-> "", tags |-> <<>>]
    /\ bookmark = input_bookmark
    /\ blessed_tags_set = {}
    /\ pc = "idle"
    /\ get_result = NotCalled
    /\ headless_result = NotCalled
    /\ get_check_result = NoResult
    /\ headless_check_result = NoResult
    /\ liveness_result = NoResult
    /\ calls = <<>>
    /\ unit_ret = <<>>
    /\ text_source = None

InitBatch ==
    /\ FlowIdle
    /\ ProtoIdle
    /\ PureIdle
    /\ FetchIdle
    /\ RenderIdle
    /\ batch_pc = "start"
    /\ data = <<>>
    /\ bookmarks = <<>>
    /\ submitted = 0
    /\ task_pc = <<>>
    /\ task_get = <<>>
    /\ task_headless = <<>>
    /\ task_liveness = <<>>
    /\ completed = <<>>
    /\ results = <<>>
    /\ saved = <<>>
    /\ output_data = <<>>

LoadBookmarks_saves_anyway ==
    /\ batch_pc = "start"
    /\ \/ /\ data' \in DataLists
          /\ batch_pc' = "loaded"
          /\ UNCHANGED saved
       \/ /\ batch_pc' = "raised in load_bookmarks"
          /\ saved' = Append(saved, <<>>)
          /\ UNCHANGED data
    /\ UNCHANGED <<bookmarks, submitted, task_pc, task_get, task_headless,
                   task_liveness, completed, results, output_data>>
    /\ UNCHANGED <<flow_vars, fetch_vars, render_vars, proto_vars, pure_vars>>

\* data = load_bookmarks(bookmarks_filepath): the records of the file, or
\* the exception of open / json.load, which the flow does not catch
LoadBookmarks ==
    /\ batch_pc = "start"
    /\ \/ /\ data' \in DataLists
          /\ batch_pc' = "loaded"
       \/ /\ batch_pc' = "raised in load_bookmarks"
          /\ UNCHANGED data
    /\ UNCHANGED <<bookmarks, submitted, task_pc, task_get, task_headless,
                   task_liveness, completed, results, saved, output_data>>
    /\ UNCHANGED <<flow_vars, fetch_vars, render_vars, proto_vars, pure_vars>>

\* bookmarks = [Bookmark.model_validate(item) for item in data]: the
\* ValidationError of a malformed record leaves the flow
ValidateBookmarks ==
    /\ batch_pc = "loaded"
    /\ IF \E i \in DOMAIN data : ~data[i].valid
       THEN /\ batch_pc' = "raised in model_validate"
            /\ UNCHANGED <<bookmarks, task_pc, task_get, task_headless,
                           task_liveness>>
       ELSE /\ batch_pc' = "validated"
            /\ bookmarks' = [i \in DOMAIN data |-> Bookmark(data[i])]
            /\ task_pc' = [i \in DOMAIN data |-> "not submitted"]
            /\ task_get' = [i \in DOMAIN data |-> NotCalled]
            /\ task_headless' = [i \in DOMAIN data |-> NotCalled]
            /\ task_liveness' = [i \in DOMAIN data |-> NoResult]
    /\ UNCHANGED <<data, submitted, completed, results, saved, output_data>>
    /\ UNCHANGED <<flow_vars, fetch_vars, render_vars, proto_vars, pure_vars>>

\* blessed_tags_set = load_blessed_tags("config/blessed_tags.txt")
LoadBlessedTags ==
    /\ batch_pc = "validated"
    /\ blessed_tags_set' \in SUBSET {"old"}
    /\ batch_pc' = "submitting"
    /\ UNCHANGED batch_vars_but_pc
    /\ UNCHANGED <<input_bookmark, bookmark, pc, get_result, headless_result,
                   get_check_result, headless_check_result, liveness_result,
                   calls, unit_ret, text_source>>
    /\ UNCHANGED <<fetch_vars, render_vars, proto_vars, pure_vars>>

\* process_bookmark_flow.submit(bookmark, blessed_tags_set) for the next
\* bookmark of the list
SubmitTask ==
    /\ batch_pc = "submitting"
    /\ submitted < Len(bookmarks)
    /\ submitted' = submitted + 1
    /\ task_pc' = [task_pc EXCEPT ![submitted + 1] = "start"]
    /\ UNCHANGED <<batch_pc, data, bookmarks, task_get, task_headless,
                   task_liveness, completed, results, saved, output_data>>
    /\ UNCHANGED <<flow_vars, fetch_vars, render_vars, proto_vars, pure_vars>>

\* task i: liveness_result = liveness_flow(bookmark.href)
TaskLiveness(i) ==
    /\ task_pc[i] = "start"
    /\ \E g \in TaskGetResults, h \in TaskHeadlessResults :
        /\ task_get' = [task_get EXCEPT ![i] = g]
        /\ task_headless' = [task_headless EXCEPT
                                ![i] = IF g.kind = "dict" THEN NotCalled
                                       ELSE h]
        /\ task_liveness' = [task_liveness EXCEPT
                                ![i] = liveness_flow(bookmarks[i].href, g, h)]
    /\ task_pc' = [task_pc EXCEPT ![i] = "liveness_returned"]
    /\ UNCHANGED <<batch_pc, data, bookmarks, submitted, completed, results,
                   saved, output_data>>
    /\ UNCHANGED <<flow_vars, fetch_vars, render_vars, proto_vars, pure_vars>>

\* task i: the redirect update of its own bookmark
TaskUpdateHref(i) ==
    /\ task_pc[i] = "liveness_returned"
    /\ bookmarks' = [bookmarks EXCEPT
                        ![i] = update_href_on_redirect(@, task_liveness[i])]
    /\ task_pc' = [task_pc EXCEPT ![i] = "redirect_checked"]
    /\ UNCHANGED <<batch_pc, data, submitted, task_get, task_headless,
                   task_liveness, completed, results, saved, output_data>>
    /\ UNCHANGED <<flow_vars, fetch_vars, render_vars, proto_vars, pure_vars>>

TaskReturn_shared_tags(i) ==
    /\ task_pc[i] = "redirect_checked"
    /\ bookmarks' = [k \in DOMAIN bookmarks |->
                        mark_offline_and_return(bookmarks[k],
                                                task_liveness[i])]
    /\ task_pc' = [task_pc EXCEPT ![i] = "done"]
    /\ completed' = Append(completed, i)
    /\ UNCHANGED <<batch_pc, data, submitted, task_get, task_headless,
                   task_liveness, results, saved, output_data>>
    /\ UNCHANGED <<flow_vars, fetch_vars, render_vars, proto_vars, pure_vars>>

TaskReturn_blesses_marker(i) ==
    /\ task_pc[i] = "redirect_checked"
    /\ bookmarks' = [bookmarks EXCEPT
                        ![i] = mark_offline_and_return(@, task_liveness[i])]
    /\ blessed_tags_set' = IF task_liveness[i].is_live THEN blessed_tags_set
                           ELSE blessed_tags_set \cup {"data:offline"}
    /\ task_pc' = [task_pc EXCEPT ![i] = "done"]
    /\ completed' = Append(completed, i)
    /\ UNCHANGED <<batch_pc, data, submitted, task_get, task_headless,
                   task_liveness, results, saved, output_data>>
    /\ UNCHANGED <<input_bookmark, bookmark, pc, get_result, headless_result,
                   get_check_result, headless_check_result, liveness_result,
                   calls, unit_ret, text_source>>
    /\ UNCHANGED <<fetch_vars, render_vars, proto_vars, pure_vars>>

\* task i: the offline marker, then return bookmark; the future is done
TaskReturn(i) ==
    /\ task_pc[i] = "redirect_checked"
    /\ bookmarks' = [bookmarks EXCEPT
                        ![i] = mark_offline_and_return(@, task_liveness[i])]
    /\ task_pc' = [task_pc EXCEPT ![i] = "done"]
    /\ completed' = Append(completed, i)
    /\ UNCHANGED <<batch_pc, data, submitted, task_get, task_headless,
                   task_liveness, results, saved, output_data>>
    /\ UNCHANGED <<flow_vars, fetch_vars, render_vars, proto_vars, pure_vars>>

CollectResult_as_completed ==
    /\ batch_pc = "submitting"
    /\ submitted = Len(bookmarks)
    /\ Len(results) < Len(bookmarks)
    /\ Len(completed) > Len(results)
    /\ results' = Append(results, bookmarks[completed[Len(results) + 1]])
    /\ UNCHANGED <<batch_pc, data, bookmarks, submitted, task_pc, task_get,
                   task_headless, task_liveness, completed, saved, output_data>>
    /\ UNCHANGED <<flow_vars, fetch_vars, render_vars, proto_vars, pure_vars>>

\* results = [f.result() for f in futures]: the next future in submission
\* order, once its task is done
CollectResult ==
    /\ batch_pc = "submitting"
    /\ submitted = Len(bookmarks)
    /\ Len(results) < Len(bookmarks)
    /\ task_pc[Len(results) + 1] = "done"
    /\ results' = Append(results, bookmarks[Len(results) + 1])
    /\ UNCHANGED <<batch_pc, data, bookmarks, submitted, task_pc, task_get,
                   task_headless, task_liveness, completed, saved, output_data>>
    /\ UNCHANGED <<flow_vars, fetch_vars, render_vars, proto_vars, pure_vars>>

SaveResults_before_all_collected ==
    /\ batch_pc = "submitting"
    /\ submitted = Len(bookmarks)
    /\ saved' = Append(saved, results)
    /\ output_data' = save_results(results)
    /\ batch_pc' = "saved"
    /\ UNCHANGED <<data, bookmarks, submitted, task_pc, task_get,
                   task_headless, task_liveness, completed, results>>
    /\ UNCHANGED <<flow_vars, fetch_vars, render_vars, proto_vars, pure_vars>>

\* save_results(results, output_filepath)
SaveResults ==
    /\ batch_pc = "submitting"
    /\ submitted = Len(bookmarks)
    /\ Len(results) = Len(bookmarks)
    /\ saved' = Append(saved, results)
    /\ output_data' = save_results(results)
    /\ batch_pc' = "saved"
    /\ UNCHANGED <<data, bookmarks, submitted, task_pc, task_get,
                   task_headless, task_liveness, completed, results>>
    /\ UNCHANGED <<flow_vars, fetch_vars, render_vars, proto_vars, pure_vars>>

NextBatch ==
    \/ LoadBookmarks
    \/ ValidateBookmarks
    \/ LoadBlessedTags
    \/ SubmitTask
    \/ \E i \in DOMAIN task_pc : TaskLiveness(i)
    \/ \E i \in DOMAIN task_pc : TaskUpdateHref(i)
    \/ \E i \in DOMAIN task_pc : TaskReturn(i)
    \/ CollectResult
    \/ SaveResults

SpecBatch == InitBatch /\ [][NextBatch]_vars

\* the flow run and the task runner's workers take a step whenever one is
\* possible
SpecBatchFair == SpecBatch /\ WF_vars(NextBatch)

\* the batch flow, and the helpers that take the blessed-tag set called on
\* their own
InitBatchOrUnit == InitBatch \/ InitUnit
NextBatchOrUnit == NextBatch \/ NextUnit
SpecBatchOrUnit == InitBatchOrUnit /\ [][NextBatchOrUnit]_vars

-----------------------------------------------------------------------------
(* the attempt_get_request task                                              *)

\* @task(retries=2, ...)
Retries == 2

\* how the network behaves in one attempt: client.get raises an
\* httpx.RequestError (connection refused or DNS failure, timeouts), raises
\* an exception that is no RequestError (httpx.InvalidURL), or returns the
\* response reached after following the redirects
NetBehaviours ==
    {[kind |-> "RequestError", error |-> e] :
        e \in {"ConnectError", "ConnectTimeout", "ReadTimeout"}} \cup
    {[kind |-> "InvalidURL"]} \cup
    {[kind |-> "response", url |-> u, text |-> c, status_code |-> st] :
        u \in Urls, c \in Contents, st \in {200, 204, 404, 500}}

\* response.raise_for_status() raises httpx.HTTPStatusError
RaisesForStatus(st) == 400 <= st /\ st < 600

attempt_get_request_status_only(url, net) ==
    IF net.kind = "response"
    THEN IF RaisesForStatus(net.status_code)
         THEN NoneDict
         ELSE ResultDict(net.url, net.text, net.status_code)
    ELSE Raised

\* the function body: the returned dict, None, or the exception that
\* leaves the function
attempt_get_request(url, net) ==
    IF net.kind = "RequestError"
    THEN NoneDict
    ELSE IF net.kind = "response"
    THEN IF RaisesForStatus(net.status_code)
         THEN NoneDict
         ELSE ResultDict(net.url, net.text, net.status_code)
    ELSE Raised

InitFetch ==
    /\ FlowIdle
    /\ ProtoIdle
    /\ PureIdle
    /\ BatchIdle
    /\ RenderIdle
    /\ fetch_pc = "called"
    /\ fetch_url \in Urls
    /\ fetch_attempt = 0
    /\ fetch_net = [kind |-> "none"]
    /\ fetch_ret = NotCalled

\* one run of the function body by the task engine: a returned value ends
\* the call, an exception is retried while retries are left
RunAttempt ==
    /\ fetch_pc \in {"called", "retrying"}
    /\ fetch_attempt' = fetch_attempt + 1
    /\ \E net \in NetBehaviours :
        LET r == attempt_get_request(fetch_url, net)
        IN  /\ fetch_net' = net
            /\ IF r # Raised
               THEN fetch_ret' = r /\ fetch_pc' = "returned"
               ELSE IF fetch_attempt' <= Retries
               THEN fetch_ret' = fetch_ret /\ fetch_pc' = "retrying"
               ELSE fetch_ret' = Raised /\ fetch_pc' = "raised"
    /\ UNCHANGED fetch_url
    /\ UNCHANGED <<flow_vars, batch_vars, render_vars, proto_vars, pure_vars>>

NextFetch == RunAttempt

SpecFetch == InitFetch /\ [][NextFetch]_vars

-----------------------------------------------------------------------------
(* the attempt_headless_browser task                                         *)

\* statuses of the final navigation response
NavStatuses == {200, 399, 400, 404, 599}

\* what page.goto returns: a response, or None
NoResponse == [kind |-> "None"]
Response(st) == [kind |-> "response", status |-> st]
GotoResults == {NoResponse} \cup {Response(st) : st \in NavStatuses}

\* control fell off the end of the inner try block
FellThrough == [kind |-> "fell through"]

except_Exception_reraise == Raised

\* except Exception: return None
except_Exception == NoneDict

http_error_status_5xx_only(status) == 500 <= status /\ status < 600

\* if 400 <= status_code < 600
http_error_status(status) == 400 <= status /\ status < 600

inferred_status_always_ok(content) == IF content = None THEN NoStatus ELSE 200

inferred_status_never(content) == NoStatus

\* status_code = 200 if content else None
inferred_status(content) == IF Truthy(content) THEN 200 ELSE NoStatus

InitRender ==
    /\ FlowIdle
    /\ ProtoIdle
    /\ PureIdle
    /\ BatchIdle
    /\ FetchIdle
    /\ render_pc = "called"
    /\ render_url \in Urls
    /\ h_response = NotCalled
    /\ h_content = None
    /\ h_final_url = None
    /\ h_status_code = NoStatus
    /\ render_pending = NotCalled
    /\ raised_in = None
    /\ render_ret = NotCalled
    /\ playwright_running = FALSE
    /\ browser_launched = FALSE
    /\ context_created = FALSE
    /\ context_close_calls = 0
    /\ browser_close_calls = 0

\* control leaves the with block of sync_playwright(), which stops the
\* Playwright driver, and the function: ret is the returned value, or Raised
\* for an exception that leaves the function
LeaveWith(ret) ==
    /\ render_ret' = ret
    /\ render_pc' = IF ret = Raised THEN "raised" ELSE "returned"
    /\ playwright_running' = FALSE

\* with sync_playwright() as p
StartPlaywright ==
    /\ render_pc = "called"
    /\ \/ /\ playwright_running' = TRUE
          /\ render_pc' = "started"
          /\ UNCHANGED <<render_ret, raised_in>>
       \/ /\ raised_in' = "sync_playwright"
          /\ LeaveWith(except_Exception)
    /\ UNCHANGED <<render_url, h_response, h_content, h_final_url,
                   h_status_code, render_pending, browser_launched,
                   context_created, context_close_calls, browser_close_calls>>
    /\ UNCHANGED <<flow_vars, batch_vars, fetch_vars, proto_vars, pure_vars>>

\* browser = p.chromium.launch(headless=True)
LaunchBrowser ==
    /\ render_pc = "started"
    /\ \/ /\ browser_launched' = TRUE
          /\ render_pc' = "launched"
          /\ UNCHANGED <<render_ret, playwright_running, raised_in>>
       \/ /\ raised_in' = "launch"
          /\ LeaveWith(except_Exception)
          /\ UNCHANGED browser_launched
    /\ UNCHANGED <<render_url, h_response, h_content, h_final_url,
                   h_status_code, render_pending, context_created,
                   context_close_calls, browser_close_calls>>
    /\ UNCHANGED <<flow_vars, batch_vars, fetch_vars, proto_vars, pure_vars>>

\* context = browser.new_context(), before the inner try block
NewContext ==
    /\ render_pc = "launched"
    /\ \/ /\ context_created' = TRUE
          /\ render_pc' = "context created"
          /\ UNCHANGED <<render_ret, playwright_running, raised_in>>
       \/ /\ raised_in' = "new_context"
          /\ LeaveWith(except_Exception)
          /\ UNCHANGED context_created
    /\ UNCHANGED <<render_url, h_response, h_content, h_final_url,
                   h_status_code, render_pending, browser_launched,
                   context_close_calls, browser_close_calls>>
    /\ UNCHANGED <<flow_vars, batch_vars, fetch_vars, proto_vars, pure_vars>>

\* page = context.new_page(); page.on("response", handle_response), before
\* the inner try block
NewPage ==
    /\ render_pc = "context created"
    /\ \/ /\ render_pc' = "page created"
          /\ UNCHANGED <<render_ret, playwright_running, raised_in>>
       \/ /\ raised_in' = "new_page"
          /\ LeaveWith(except_Exception)
    /\ UNCHANGED <<render_url, h_response, h_content, h_final_url,
                   h_status_code, render_pending, browser_launched,
                   context_created, context_close_calls, browser_close_calls>>
    /\ UNCHANGED <<flow_vars, batch_vars, fetch_vars, proto_vars, pure_vars>>

\* response = page.goto(url, ...): an exception sends control to finally
Goto ==
    /\ render_pc = "page created"
    /\ \/ /\ h_response' \in GotoResults
          /\ render_pc' = "navigated"
          /\ UNCHANGED <<render_pending, raised_in>>
       \/ /\ render_pending' = Raised
          /\ raised_in' = "goto"
          /\ render_pc' = "finally"
          /\ UNCHANGED h_response
    /\ UNCHANGED <<render_url, h_content, h_final_url, h_status_code,
                   render_ret, playwright_running, browser_launched,
                   context_created, context_close_calls, browser_close_calls>>
    /\ UNCHANGED <<flow_vars, batch_vars, fetch_vars, proto_vars, pure_vars>>

\* content = page.content(); final_url = page.url; then the status policy:
\* return None on an error status, infer the status without a response
ReadPage ==
    /\ render_pc = "navigated"
    /\ \/ \E c \in Contents, f \in Urls :
            /\ h_content' = c
            /\ h_final_url' = f
            /\ IF h_response.kind = "response"
               THEN /\ h_status_code' = h_response.status
                    /\ render_pending' =
                          IF http_error_status(h_response.status)
                          THEN NoneDict
                          ELSE FellThrough
               ELSE /\ h_status_code' = inferred_status(c)
                    /\ render_pending' = FellThrough
            /\ UNCHANGED raised_in
       \/ /\ render_pending' = Raised
          /\ raised_in' = "content"
          /\ UNCHANGED <<h_content, h_final_url, h_status_code>>
    /\ render_pc' = "finally"
    /\ UNCHANGED <<render_url, h_response, render_ret, playwright_running,
                   browser_launched, context_created, context_close_calls,
                   browser_close_calls>>
    /\ UNCHANGED <<flow_vars, batch_vars, fetch_vars, proto_vars, pure_vars>>

\* finally: context.close(); its exception leaves the finally block
CloseContext ==
    /\ render_pc = "finally"
    /\ context_close_calls' = context_close_calls + 1
    /\ \/ /\ render_pc' = "context closed"
          /\ UNCHANGED <<render_ret, playwright_running, raised_in>>
       \/ /\ raised_in' = "context.close"
          /\ LeaveWith(except_Exception)
    /\ UNCHANGED <<render_url, h_response, h_content, h_final_url,
                   h_status_code, render_pending, browser_launched,
                   context_created, browser_close_calls>>
    /\ UNCHANGED <<flow_vars, batch_vars, fetch_vars, proto_vars, pure_vars>>

\* finally: browser.close()
CloseBrowser ==
    /\ render_pc = "context closed"
    /\ browser_close_calls' = browser_close_calls + 1
    /\ \/ /\ render_pc' = "browser closed"
          /\ UNCHANGED <<render_ret, playwright_running, raised_in>>
       \/ /\ raised_in' = "browser.close"
          /\ LeaveWith(except_Exception)
    /\ UNCHANGED <<render_url, h_response, h_content, h_final_url,
                   h_status_code, render_pending, browser_launched,
                   context_created, context_close_calls>>
    /\ UNCHANGED <<flow_vars, batch_vars, fetch_vars, proto_vars, pure_vars>>

\* after finally: the pending exception reaches except Exception, the
\* pending return None completes, or the result dict is returned
ReturnFromRender ==
    /\ render_pc = "browser closed"
    /\ LeaveWith(IF render_pending = Raised THEN except_Exception
                 ELSE IF render_pending = NoneDict THEN NoneDict
                 ELSE ResultDict(h_final_url, h_content, h_status_code))
    /\ UNCHANGED <<render_url, h_response, h_content, h_final_url,
                   h_status_code, render_pending, raised_in, browser_launched,
                   context_created, context_close_calls, browser_close_calls>>
    /\ UNCHANGED <<flow_vars, batch_vars, fetch_vars, proto_vars, pure_vars>>

NextRender ==
    \/ StartPlaywright
    \/ LaunchBrowser
    \/ NewContext
    \/ NewPage
    \/ Goto
    \/ ReadPage
    \/ CloseContext
    \/ CloseBrowser
    \/ ReturnFromRender

SpecRender == InitRender /\ [][NextRender]_vars

-----------------------------------------------------------------------------
(* Properties                                                                *)

\* liveness_flow has returned its LivenessResult
Returned == liveness_result.kind = "LivenessResult"
\* process_bookmark_flow has returned bookmark
Done == pc = "done"
Count(name) == Cardinality({i \in DOMAIN calls : calls[i] = name})
Fields(r) == <<r.final_url, r.content, r.status_code>>

\* C1: whenever attempt_get_request returned a result, the renderer is not
\* invoked at any point of the resolution, and the LivenessResult returned by
\* liveness_flow is live, has method GET and carries the fetcher's final_url,
\* content and status_code.
C1_GetSuccessNeverRenders ==
    get_result.kind = "dict" =>
        /\ Count("attempt_headless_browser") = 0
        /\ headless_result = NotCalled
        /\ Returned =>
            /\ liveness_result.is_live
            /\ liveness_result.method = "GET"
            /\ Fields(liveness_result) = Fields(get_result)

C1_Witness ==
    /\ Done
    /\ get_result.kind = "dict"
    /\ liveness_result.method = "GET"

\* C2: the renderer is never invoked before the fetcher and each is invoked
\* at most once; when the fetcher returned None, liveness_flow has invoked the
\* renderer exactly once, after the single fetcher call, by the time it
\* returns; and if the renderer returned a result the outcome is live with
\* method HEADLESS and the renderer's fields.
C2_GetAbsentRendersOnce ==
    /\ calls \in {<<>>, <<"attempt_get_request">>,
                  <<"attempt_get_request", "attempt_headless_browser">>}
    /\ (get_result.kind = "None" /\ Returned) =>
        /\ calls = <<"attempt_get_request", "attempt_headless_browser">>
        /\ headless_result.kind = "dict" =>
            /\ liveness_result.is_live
            /\ liveness_result.method = "HEADLESS"
            /\ Fields(liveness_result) = Fields(headless_result)

C2_Witness ==
    /\ Done
    /\ get_result.kind = "None"
    /\ headless_result.kind = "dict"
    /\ liveness_result.method = "HEADLESS"

\* C3: when both the fetcher and the renderer returned None, liveness_flow
\* returns is_live = false, method NONE, and final_url, content and
\* status_code all None.
C3_BothAbsentGivesNone ==
    (get_result.kind = "None" /\ headless_result.kind = "None" /\ Returned) =>
        /\ ~liveness_result.is_live
        /\ liveness_result.method = "NONE"
        /\ Fields(liveness_result) = <<None, None, NoStatus>>

C3_Witness ==
    /\ Done
    /\ get_result.kind = "None"
    /\ headless_result.kind = "None"
    /\ liveness_result.method = "NONE"

\* C4: every LivenessResult returned by liveness_flow satisfies: is_live
\* implies method # NONE; method NONE implies final_url, content and
\* status_code are None; a GET outcome carries exactly the fetcher's three
\* fields and a HEADLESS outcome exactly the renderer's three fields.
C4_LivenessResultInvariant ==
    Returned =>
        /\ liveness_result.method \in {"GET", "HEADLESS", "NONE"}
        /\ liveness_result.is_live => liveness_result.method # "NONE"
        /\ liveness_result.method = "NONE" =>
            Fields(liveness_result) = <<None, None, NoStatus>>
        /\ liveness_result.method = "GET" =>
            /\ get_result.kind = "dict"
            /\ headless_result = NotCalled
            /\ Fields(liveness_result) = Fields(get_result)
        /\ liveness_result.method = "HEADLESS" =>
            /\ get_result.kind # "dict"
            /\ headless_result.kind = "dict"
            /\ Fields(liveness_result) = Fields(headless_result)

\* a live HEADLESS outcome whose content is empty and whose status is None,
\* with a final_url other than the URL that was checked
C4_Witness ==
    /\ Returned
    /\ liveness_result.method = "HEADLESS"
    /\ liveness_result.content = ""
    /\ liveness_result.status_code = NoStatus
    /\ liveness_result.final_url # liveness_result.url

\* C5: when the liveness outcome's final_url is present and differs from the
\* input bookmark's href, the returned bookmark's href is that final_url and
\* its tags include "data:redirected".
C5_RedirectUpdatesHref ==
    (/\ Done
     /\ liveness_result.final_url # None
     /\ liveness_result.final_url # input_bookmark.href) =>
        /\ bookmark.href = liveness_result.final_url
        /\ "data:redirected" \in Range(bookmark.tags)

C5_Witness ==
    /\ Done
    /\ liveness_result.final_url # None
    /\ liveness_result.final_url # input_bookmark.href
    /\ bookmark.href # input_bookmark.href

C7_NotLiveStillLints ==
    (Done /\ ~liveness_result.is_live) =>
        /\ Count("lint_tags") = 1
        /\ blessed_tags_set # {} =>
            \A i \in DOMAIN input_bookmark.tags :
                input_bookmark.tags[i] \notin blessed_tags_set =>
                    input_bookmark.tags[i] \notin Range(bookmark.tags)

\* C8: for a bookmark that is not live, process_bookmark_flow returns without
\* any call to extract_main_content, summarize_content or suggest_tags and
\* without a second attempt_get_request.
C8_NotLiveSkipsContentSteps ==
    (Done /\ ~liveness_result.is_live) =>
        /\ Count("extract_main_content") = 0
        /\ Count("summarize_content") = 0
        /\ Count("suggest_tags") = 0
        /\ Count("attempt_get_request") = 1

C8_Witness ==
    /\ Done
    /\ ~liveness_result.is_live
    /\ "data:offline" \in Range(bookmark.tags)
    /\ input_bookmark.extended = ""

\* C9: with a non-empty blessed-tag set the returned bookmark's tags are a
\* subset of the blessed set; with an empty blessed-tag set no tag of the
\* input bookmark is dropped.
C9_ReturnedTagsBlessed ==
    Done =>
        /\ blessed_tags_set # {} => Range(bookmark.tags) \subseteq blessed_tags_set
        /\ blessed_tags_set = {} =>
            Range(input_bookmark.tags) \subseteq Range(bookmark.tags)

\* C10: lint_tags(tags, blessed) with a non-empty blessed set returns exactly
\* the tags that are members of blessed, in their original relative order;
\* with an empty blessed set it returns tags unchanged.
C10_LintTagsFilters ==
    pc = "lint_tags returned" =>
        LET IsBlessed(t) == t \in blessed_tags_set
        IN  /\ blessed_tags_set # {} =>
                unit_ret = SelectSeq(bookmark.tags, IsBlessed)
            /\ blessed_tags_set = {} => unit_ret = bookmark.tags

\* a blessed tag kept between two dropped ones, and a non-empty list linted
\* against the empty set
C10_WitnessFiltered ==
    /\ pc = "lint_tags returned"
    /\ blessed_tags_set # {}
    /\ Len(bookmark.tags) = MaxTags
    /\ Len(unit_ret) = 1
    /\ bookmark.tags[1] \notin blessed_tags_set
    /\ bookmark.tags[2] \in blessed_tags_set

NoDuplicates(s) == \A i, j \in DOMAIN s : i # j => s[i] # s[j]

\* C11: if the input bookmark's tags hold no duplicates, the tags of the
\* bookmark returned by process_bookmark_flow hold no duplicates either.
C11_NoDuplicateTagsIntroduced ==
    (Done /\ NoDuplicates(input_bookmark.tags)) => NoDuplicates(bookmark.tags)

\* C12: a bookmark whose extended is non-empty on input keeps exactly that
\* extended value through process_bookmark_flow and through
\* _summarize_and_update_extended, and summarize_content is never called
\* for it.
C12_NonEmptyExtendedKept ==
    input_bookmark.extended # "" =>
        /\ bookmark.extended = input_bookmark.extended
        /\ Count("summarize_content") = 0

\* a live bookmark with non-empty extended returned after a fetch with markup
C12_Witness ==
    /\ Done
    /\ input_bookmark.extended = "Hi"
    /\ liveness_result.is_live
    /\ liveness_result.content = "<html>A</html>"

\* the text source of the bookmark process_bookmark_flow works on, once
\* liveness_flow has returned a live result (which always carries content)
FlowTextSource ==
    _get_and_extract_content_source(input_bookmark, liveness_result,
                                    NoneDict).text_source

\* C13: for a live bookmark whose extended is empty and that has a non-empty
\* text source, process_bookmark_flow returns extended equal to
\* summarize_content(text source), with summarize_content called once.
C13_LiveEmptyExtendedSummarized ==
    (/\ Done
     /\ liveness_result.is_live
     /\ input_bookmark.extended = ""
     /\ Truthy(FlowTextSource)) =>
        /\ bookmark.extended = summarize_content(FlowTextSource)
        /\ Count("summarize_content") = 1

\* C14: for a live bookmark with a text source, the returned tags are the
\* lint, against the blessed set, of the union of the input tags and
\* suggest_tags(text source).
C14_LiveTagsMergedThenLinted ==
    (Done /\ liveness_result.is_live /\ Truthy(FlowTextSource)) =>
        LET merged == Range(input_bookmark.tags)
                          \cup Range(suggest_tags(FlowTextSource))
        IN  Range(bookmark.tags) =
                IF blessed_tags_set = {} THEN merged
                ELSE merged \cap blessed_tags_set

C16_NoContentGivesNone ==
    (/\ pc = "_get_and_extract_content_source returned"
     /\ bookmark.extended = ""
     /\ liveness_result.content = None
     /\ \/ get_result.kind # "dict"
        \/ extract_main_content(get_result.content) = "") =>
        unit_ret = None

\* C17: the list handed to save_results has the length of the input list,
\* and its i-th element is the bookmark returned by the task submitted for
\* the i-th input record, in whatever order the tasks finished.
C17_SavedInInputOrder ==
    batch_pc = "saved" =>
        /\ Len(saved) = 1
        /\ Len(saved[1]) = Len(data)
        /\ \A i \in DOMAIN data :
            /\ saved[1][i] = bookmarks[i]
            /\ saved[1][i].hash = Hash(i)

\* two bookmarks with different results, the second finished first
C17_Witness ==
    /\ batch_pc = "saved"
    /\ completed = <<2, 1>>
    /\ saved[1][1].href # saved[1][2].href
    /\ saved[1][1].tags # saved[1][2].tags

\* C18: when a stored record is malformed and another is well-formed, process_all_bookmarks_flow still
\* processes every other bookmark and saves their results: the run ends with
\* save_results called once, holding the processed bookmark of every
\* well-formed record.
C18_MalformedRecordDoesNotAbort ==
    (/\ batch_pc \in {"saved", "raised in model_validate"}
     /\ \E i \in DOMAIN data : ~data[i].valid
     /\ \E i \in DOMAIN data : data[i].valid) =>
        /\ batch_pc = "saved"
        /\ Len(saved) = 1
        /\ \A i \in DOMAIN data :
            data[i].valid =>
                \E k \in DOMAIN saved[1] : saved[1][k].hash = Hash(i)

\* the saved list of a run that processes the bookmarks one after another in
\* input order, with the same collaborator results per bookmark
SequentialRun ==
    [i \in DOMAIN data |->
        process_bookmark_flow(Bookmark(data[i]), task_get[i],
                              task_headless[i])]

\* C19: the list saved by the concurrent run equals the list a sequential
\* pass over the same bookmarks with the same collaborator results
\* produces, whatever the interleaving of the tasks' steps.
C19_ConcurrentEqualsSequential ==
    batch_pc = "saved" => saved = <<SequentialRun>>

\* both tasks were between their liveness check and their return at the
\* same time, one redirected and one offline
C19_Witness ==
    /\ batch_pc = "saved"
    /\ Len(data) = MaxBookmarks
    /\ completed[1] # 1
    /\ \E i, j \in DOMAIN saved[1] :
        /\ "data:offline" \in Range(saved[1][i].tags)
        /\ "data:redirected" \in Range(saved[1][j].tags)

\* C20: a call of attempt_get_request whose last attempt met an HTTP 4xx/5xx
\* status or a network-level error (connection refused, DNS failure,
\* timeout) does not raise and returns None; one that met a successful
\* response returns its post-redirect URL, its body and its status code.
C20_FetchNeverRaisesForHttpOrNetworkErrors ==
    fetch_pc \in {"returned", "raised"} =>
        /\ (\/ fetch_net.kind = "RequestError"
            \/ /\ fetch_net.kind = "response"
               /\ fetch_net.status_code \in 400..599) =>
                /\ fetch_pc = "returned"
                /\ fetch_ret = NoneDict
        /\ (/\ fetch_net.kind = "response"
            /\ fetch_net.status_code \notin 400..599) =>
                /\ fetch_pc = "returned"
                /\ fetch_ret.kind = "dict"
                /\ fetch_ret.final_url = fetch_net.url
                /\ fetch_ret.content = fetch_net.text
                /\ fetch_ret.status_code = fetch_net.status_code

\* a timeout on the first attempt, answered with None
C20_Witness ==
    /\ fetch_pc = "returned"
    /\ fetch_attempt = 1
    /\ fetch_net.kind = "RequestError"
    /\ fetch_net.error = "ConnectTimeout"
    /\ fetch_ret = NoneDict

\* C21: a call of attempt_get_request whose attempt fails with a network
\* error (connection, DNS, timeout) is retried, and resolves to None only
\* after Retries further attempts; an attempt answered with an HTTP 4xx/5xx
\* status is never retried and ends the call with None.
C21_NetworkErrorsRetried ==
    /\ (fetch_pc = "returned" /\ fetch_net.kind = "RequestError") =>
        /\ fetch_attempt = Retries + 1
        /\ fetch_ret = NoneDict
    /\ (/\ fetch_net.kind = "response"
        /\ fetch_net.status_code \in 400..599) =>
        /\ fetch_pc = "returned"
        /\ fetch_ret = NoneDict

\* attempt_headless_browser has returned or raised
RenderLeft == render_pc \in {"returned", "raised"}

\* C22: on every exit of attempt_headless_browser after the browser was
\* launched (normal return, HTTP-error return, exception in new_context,
\* new_page, goto, content or context.close), browser.close() has been
\* called exactly once and a created context has been closed before the
\* function returns.
C22_BrowserAndContextClosedOnEveryExit ==
    (RenderLeft /\ browser_launched) =>
        /\ browser_close_calls = 1
        /\ context_created => context_close_calls = 1

C24_NoResponseNoContentIsAbsent ==
    (RenderLeft /\ h_response = NoResponse /\ h_content = "") =>
        /\ render_ret = NoneDict
        /\ _perform_headless_check(render_url, render_ret) = NoResult

C27_RendererNeverRaises ==
    /\ render_pc # "raised"
    /\ render_ret # Raised
    /\ (RenderLeft /\ raised_in # None) => render_ret = NoneDict

\* a navigation that raised after a context was created
C27_Witness ==
    /\ render_pc = "returned"
    /\ raised_in = "goto"
    /\ context_created
    /\ render_ret = NoneDict

\* C28: an error raised by the fetcher call only makes liveness_flow go on
\* to the renderer, and an error raised by the renderer call only yields the
\* NONE outcome: neither check helper lets the error out, and what
\* liveness_flow hands to process_bookmark_flow is always a LivenessResult.
C28_LivenessFlowAbsorbsFailures ==
    /\ get_check_result.kind \in {"None", "LivenessResult"}
    /\ headless_check_result.kind \in {"None", "LivenessResult"}
    /\ pc \in {"liveness_returned", "redirect_checked", "done"} => Returned
    /\ (get_result = Raised /\ Returned) =>
        /\ calls = <<"attempt_get_request", "attempt_headless_browser">>
        /\ liveness_result.method \in {"HEADLESS", "NONE"}
        /\ liveness_result.method = "HEADLESS" <=> headless_result.kind = "dict"
    /\ (headless_result = Raised /\ Returned) =>
        /\ liveness_result.method = "NONE"
        /\ ~liveness_result.is_live

\* both collaborators raised and the bookmark was still returned
C28_Witness ==
    /\ Done
    /\ get_result = Raised
    /\ headless_result = Raised
    /\ liveness_result.method = "NONE"
    /\ "data:offline" \in Range(bookmark.tags)

\* the description and the passthrough fields of a record
Passthrough(r) ==
    <<r.description, r.meta, r.hash, r.time, r.shared, r.toread>>

\* C29: at every step of every task the bookmark's description, meta, hash,
\* time, shared and toread equal those of its input record, whatever the
\* liveness outcome, and the record save_results writes for it carries
\* them unchanged.
C29_PassthroughFieldsPreserved ==
    /\ \A i \in DOMAIN bookmarks :
        Passthrough(bookmarks[i]) = Passthrough(data[i])
    /\ batch_pc = "saved" =>
        /\ Len(output_data) = Len(data)
        /\ \A i \in DOMAIN data :
            Passthrough(output_data[i]) = Passthrough(data[i])

\* a redirected and an offline bookmark written with differing fields
C29_Witness ==
    /\ batch_pc = "saved"
    /\ Len(output_data) = MaxBookmarks
    /\ output_data[1].href # data[1].href
    /\ output_data[2].tags = "old data:offline"
    /\ Passthrough(output_data[1]) # Passthrough(output_data[2])

C32_UnreadableInputIsFatal ==
    batch_pc = "raised in load_bookmarks" =>
        /\ data = <<>>
        /\ bookmarks = <<>>
        /\ submitted = 0
        /\ completed = <<>>
        /\ results = <<>>
        /\ saved = <<>>
        /\ output_data = <<>>
        /\ ~ENABLED NextBatch

\* the run that ended in load_bookmarks
C32_Witness ==
    /\ batch_pc = "raised in load_bookmarks"
    /\ task_pc = <<>>
    /\ saved = <<>>

\* C36: when the liveness outcome's final_url is None or equal to the input
\* href, the returned bookmark has the input href and no "data:redirected"
\* marker was added; and the returned href is always the input href or the
\* final_url of the fetcher or renderer result that made the bookmark live.
C36_HrefOnlyFromGoodResolution ==
    Done =>
        /\ (\/ liveness_result.final_url = None
            \/ liveness_result.final_url = input_bookmark.href) =>
            /\ bookmark.href = input_bookmark.href
            /\ "data:redirected" \notin Range(bookmark.tags)
        /\ \/ bookmark.href = input_bookmark.href
           \/ /\ liveness_result.is_live
              /\ liveness_result.method = "GET"
              /\ get_result.kind = "dict"
              /\ bookmark.href = get_result.final_url
           \/ /\ liveness_result.is_live
              /\ liveness_result.method = "HEADLESS"
              /\ headless_result.kind = "dict"
              /\ bookmark.href = headless_result.final_url

\* a live bookmark whose final URL is its own href, returned with its tags
C36_Witness ==
    /\ Done
    /\ liveness_result.is_live
    /\ liveness_result.final_url = input_bookmark.href
    /\ bookmark = input_bookmark
    /\ Len(bookmark.tags) = MaxTags

\* C35: _suggest_and_add_new_tags with a text source that is None or empty
\* makes no suggest_tags call and leaves bookmark.tags as it was; with a
\* text source it calls suggest_tags once and bookmark.tags afterwards
\* holds exactly the previous tags and the suggested tags, each once.
C35_SuggestedTagsMerged ==
    pc = "_suggest_and_add_new_tags returned" =>
        IF Truthy(text_source)
        THEN /\ calls = <<"suggest_tags">>
             /\ Range(bookmark.tags) =
                    Range(input_bookmark.tags)
                        \cup Range(suggest_tags(text_source))
             /\ NoDuplicates(bookmark.tags)
        ELSE /\ calls = <<>>
             /\ bookmark.tags = input_bookmark.tags

\* a suggested tag that the bookmark already had, and a new one
C35_Witness ==
    /\ pc = "_suggest_and_add_new_tags returned"
    /\ text_source = "A"
    /\ "junk" \in Range(input_bookmark.tags)
    /\ "new" \notin Range(input_bookmark.tags)
    /\ "new" \in Range(bookmark.tags)
    /\ Len(input_bookmark.tags) = MaxTags

\* C37: save_results is called at most once in a run of
\* process_all_bookmarks_flow, and only when every submitted task has
\* completed and its result was collected; and once the tasks are being
\* submitted (no task raises), the run eventually calls save_results with
\* one result per input bookmark.
C37_SaveOnceAfterAllTasks ==
    /\ [](/\ Len(saved) <= 1
          /\ saved # <<>> =>
              /\ submitted = Len(data)
              /\ \A i \in DOMAIN task_pc : task_pc[i] = "done"
              /\ Len(completed) = Len(data)
              /\ Len(saved[1]) = Len(data))
    /\ (batch_pc = "submitting") ~> (batch_pc = "saved" /\ Len(saved) = 1)

\* a run that saved, its first task the last to complete
C37_Witness ==
    /\ batch_pc = "saved"
    /\ Len(saved) = 1
    /\ Len(completed) = MaxBookmarks
    /\ completed[MaxBookmarks] = 1

-----------------------------------------------------------------------------
(* the prototype's liveness_flow (bookmark-processor/main.py)                *)

\* the prototype's attempt_head_request: the final URL as a string, or the
\* exception of raise_for_status() or of the transport once retries are spent
HeadTaskResults ==
    {Raised} \cup {[kind |-> "str", value |-> u] : u \in Urls}

\* the prototype's attempt_get_request and attempt_headless_browser: a dict
\* of final_url and content, or the exception
ProtoDict(f, c) == [kind |-> "dict", final_url |-> f, content |-> c]

ProtoDictResults ==
    {Raised} \cup {ProtoDict(f, c) : f \in Urls, c \in Contents}

\* obj[key] evaluates: obj is a dict that has the key
Subscriptable(obj, key) == obj.kind = "dict" /\ key \in DOMAIN obj

\* one try block of the flow: the LivenessResult it returns, or Raised when
\* the block is left through its except clause or its if is not taken
try_block(result, method) ==
    IF result = Raised THEN Raised
    ELSE IF ~Subscriptable(result, "status_code") THEN Raised
    ELSE LivenessResult(proto_url, TRUE, result.status_code, method,
                        result.final_url,
                        IF method = "HEAD" THEN None ELSE result.content)

InitProto ==
    /\ FlowIdle
    /\ BatchIdle
    /\ FetchIdle
    /\ RenderIdle
    /\ PureIdle
    /\ proto_pc = "head"
    /\ proto_url \in Urls
    /\ head_result = NotCalled
    /\ proto_get_result = NotCalled
    /\ proto_headless_result = NotCalled
    /\ proto_liveness_result = NoResult

AttemptHead ==
    /\ proto_pc = "head"
    /\ \E r \in HeadTaskResults :
        /\ head_result' = r
        /\ IF try_block(r, "HEAD") = Raised
           THEN /\ proto_pc' = "get"
                /\ UNCHANGED proto_liveness_result
           ELSE /\ proto_pc' = "returned"
                /\ proto_liveness_result' = try_block(r, "HEAD")
    /\ UNCHANGED <<proto_url, proto_get_result, proto_headless_result>>
    /\ UNCHANGED <<flow_vars, batch_vars, fetch_vars, render_vars, pure_vars>>

AttemptGet ==
    /\ proto_pc = "get"
    /\ \E r \in ProtoDictResults :
        /\ proto_get_result' = r
        /\ IF try_block(r, "GET") = Raised
           THEN /\ proto_pc' = "headless"
                /\ UNCHANGED proto_liveness_result
           ELSE /\ proto_pc' = "returned"
                /\ proto_liveness_result' = try_block(r, "GET")
    /\ UNCHANGED <<proto_url, head_result, proto_headless_result>>
    /\ UNCHANGED <<flow_vars, batch_vars, fetch_vars, render_vars, pure_vars>>

AttemptHeadless ==
    /\ proto_pc = "headless"
    /\ \E r \in ProtoDictResults :
        /\ proto_headless_result' = r
        /\ IF try_block(r, "HEADLESS") = Raised
           THEN /\ proto_pc' = "all_failed"
                /\ UNCHANGED proto_liveness_result
           ELSE /\ proto_pc' = "returned"
                /\ proto_liveness_result' = try_block(r, "HEADLESS")
    /\ UNCHANGED <<proto_url, head_result, proto_get_result>>
    /\ UNCHANGED <<flow_vars, batch_vars, fetch_vars, render_vars, pure_vars>>

ReturnNone ==
    /\ proto_pc = "all_failed"
    /\ proto_pc' = "returned"
    /\ proto_liveness_result' =
           LivenessResult(proto_url, FALSE, None, "NONE", None, None)
    /\ UNCHANGED <<proto_url, head_result, proto_get_result,
                   proto_headless_result>>
    /\ UNCHANGED <<flow_vars, batch_vars, fetch_vars, render_vars, pure_vars>>

NextProto ==
    \/ AttemptHead
    \/ AttemptGet
    \/ AttemptHeadless
    \/ ReturnNone

SpecProto == InitProto /\ [][NextProto]_vars

\* C39: the prototype's liveness_flow follows HEAD -> GET -> Headless: a
\* HEAD task that succeeds gives a live result by HEAD without content, else
\* a GET task that succeeds gives a live result by GET, else a headless task
\* that succeeds gives a live result by HEADLESS, and the result is NONE only
\* when all three tasks failed.
C39_PrototypeFallbackChain ==
    proto_pc = "returned" =>
        /\ head_result # Raised =>
            /\ proto_liveness_result.is_live
            /\ proto_liveness_result.method = "HEAD"
            /\ proto_liveness_result.content = None
        /\ head_result = Raised /\ proto_get_result # Raised =>
            /\ proto_liveness_result.is_live
            /\ proto_liveness_result.method = "GET"
        /\ /\ head_result = Raised
           /\ proto_get_result = Raised
           /\ proto_headless_result # Raised
           => /\ proto_liveness_result.is_live
              /\ proto_liveness_result.method = "HEADLESS"
        /\ proto_liveness_result.method = "NONE" =>
            /\ head_result = Raised
            /\ proto_get_result = Raised
            /\ proto_headless_result = Raised

-----------------------------------------------------------------------------
(* load_blessed_tags on its own                                              *)

\* longest blessed-tags file, in characters
MaxFileLen == 4

\* characters of a file
FileChars == {"a", "b"} \cup Whitespace
Texts == UNION {[1..n -> FileChars] : n \in 0..MaxFileLen}

\* the file at blessed_tags_path: absent, present but not openable for
\* reading, or a text
BlessedFiles ==
    {[kind |-> "missing", text |-> <<>>],
     [kind |-> "unreadable", text |-> <<>>]} \cup
    {[kind |-> "text", text |-> t] : t \in Texts}

RECURSIVE readlines(_, _)
\* "for line in f": the lines of the text, each with its line end
readlines(text, line) ==
    IF text = <<>>
    THEN IF line = <<>> THEN <<>> ELSE <<line>>
    ELSE IF Head(text) = "\n"
         THEN <<Append(line, "\n")>> \o readlines(Tail(text), <<>>)
         ELSE readlines(Tail(text), Append(line, Head(text)))

\* what open(blessed_tags_path) raises, None when it opens
open_raises(file) ==
    CASE file.kind = "missing" -> "FileNotFoundError"
      [] file.kind = "unreadable" -> "PermissionError"
      [] OTHER -> None

load_blessed_tags_no_except(file) ==
    IF open_raises(file) # None
    THEN Raised
    ELSE LET f == readlines(file.text, <<>>)
         IN  [kind |-> "set",
              value |-> {strip(line) :
                           line \in {l \in Range(f) : strip(l) # <<>>}}]

load_blessed_tags(file) ==
    IF open_raises(file) = "FileNotFoundError"
    THEN [kind |-> "set", value |-> {}]
    ELSE IF open_raises(file) # None
    THEN Raised
    ELSE LET f == readlines(file.text, <<>>)
         IN  [kind |-> "set",
              value |-> {strip(line) :
                           line \in {l \in Range(f) : strip(l) # <<>>}}]

InitBlessed ==
    /\ FlowIdle
    /\ BatchIdle
    /\ FetchIdle
    /\ RenderIdle
    /\ ProtoIdle
    /\ pure_pc = "blessed_called"
    /\ blessed_file \in BlessedFiles
    /\ loaded_tags = {}
    /\ stored_tags = NoneDict
    /\ validated_tags = <<>>
    /\ written_tags = <<>>
    /\ reloaded_tags = <<>>
    /\ html_doc = NoneDict
    /\ extracted = <<>>

CallLoadBlessedTags ==
    /\ pure_pc = "blessed_called"
    /\ LET r == load_blessed_tags(blessed_file)
       IN  IF r = Raised
           THEN /\ pure_pc' = "blessed_raised"
                /\ UNCHANGED loaded_tags
           ELSE /\ pure_pc' = "blessed_loaded"
                /\ loaded_tags' = r.value
    /\ UNCHANGED <<blessed_file, stored_tags, validated_tags, written_tags,
                   reloaded_tags, html_doc, extracted>>
    /\ UNCHANGED <<flow_vars, batch_vars, fetch_vars, render_vars, proto_vars>>

NextBlessed == CallLoadBlessedTags

SpecBlessed == InitBlessed /\ [][NextBlessed]_vars

\* the lines of a text, said without the loop: the stretches that start at
\* the start or after a line end and stop at the next line end or at the end
LinesOf(text) ==
    {SubSeq(text, i, j) : <<i, j>> \in
        {p \in (1..Len(text)) \X (1..Len(text)) :
            /\ p[1] <= p[2]
            /\ p[1] = 1 \/ text[p[1] - 1] = "\n"
            /\ p[2] = Len(text) \/ text[p[2]] = "\n"
            /\ \A k \in p[1]..(p[2] - 1) : text[k] # "\n"}}

\* t is line without the whitespace around it, and is not empty
StrippedLine(t, line) ==
    /\ t # <<>>
    /\ Head(t) \notin Whitespace
    /\ t[Len(t)] \notin Whitespace
    /\ \E i \in 1..Len(line) :
        /\ i + Len(t) - 1 <= Len(line)
        /\ SubSeq(line, i, i + Len(t) - 1) = t
        /\ \A k \in 1..(i - 1) : line[k] \in Whitespace
        /\ \A k \in (i + Len(t))..Len(line) : line[k] \in Whitespace

\* C31: a missing blessed-tags file makes load_blessed_tags return the empty
\* set instead of raising, and with that set lint_tags lets every tag list
\* through unchanged; for a file that exists the set holds exactly the
\* non-blank lines with the whitespace around them stripped.
C31_MissingFileDisablesLint ==
    /\ blessed_file.kind = "missing" => pure_pc # "blessed_raised"
    /\ pure_pc = "blessed_loaded" /\ blessed_file.kind = "missing" =>
        /\ loaded_tags = {}
        /\ \A tags \in TagLists : lint_tags(tags, loaded_tags) = tags
    /\ pure_pc = "blessed_loaded" /\ blessed_file.kind = "text" =>
        /\ \A t \in loaded_tags :
            \E line \in LinesOf(blessed_file.text) : StrippedLine(t, line)
        /\ \A line \in LinesOf(blessed_file.text) :
            (\E k \in 1..Len(line) : line[k] \notin Whitespace) =>
                \E t \in loaded_tags : StrippedLine(t, line)

C31_Witness ==
    /\ pure_pc = "blessed_loaded"
    /\ blessed_file.kind = "missing"
    /\ loaded_tags = {}

-----------------------------------------------------------------------------
(* the tags of a record: validated, saved and loaded again                   *)

\* longest stored tags string, longest tag of a stored list and longest
\* stored list
MaxChars == 4
MaxTagLen == 3
MaxListLen == 2

TagStrings == UNION {[1..n -> {"a", " "}] : n \in 0..MaxTagLen}

\* the "tags" value of a stored record: null, a string or a list of strings
StoredTags ==
    {NoneDict} \cup
    {[kind |-> "str", value |-> s] :
        s \in UNION {[1..n -> FileChars] : n \in 0..MaxChars}} \cup
    {[kind |-> "list", value |-> l] :
        l \in UNION {[1..n -> TagStrings] : n \in 0..MaxListLen}}

RECURSIVE str_split_on_space(_, _)
str_split_on_space(s, word) ==
    IF s = <<>>
    THEN <<word>>
    ELSE IF Head(s) = " "
         THEN <<word>> \o str_split_on_space(Tail(s), <<>>)
         ELSE str_split_on_space(Tail(s), Append(word, Head(s)))

RECURSIVE str_split(_, _)
\* v.split(): the runs of characters between whitespace, none of them empty
str_split(s, word) ==
    IF s = <<>>
    THEN IF word = <<>> THEN <<>> ELSE <<word>>
    ELSE IF Head(s) \in Whitespace
         THEN (IF word = <<>> THEN <<>> ELSE <<word>>)
              \o str_split(Tail(s), <<>>)
         ELSE str_split(Tail(s), Append(word, Head(s)))

split_tags_on_space(v) ==
    CASE v.kind = "None" -> <<>>
      [] v.kind = "str" -> str_split_on_space(v.value, <<>>)
      [] OTHER -> v.value

\* the "before" validator of Bookmark.tags
split_tags(v) ==
    CASE v.kind = "None" -> <<>>
      [] v.kind = "str" -> str_split(v.value, <<>>)
      [] OTHER -> v.value

InitTags ==
    /\ FlowIdle
    /\ BatchIdle
    /\ FetchIdle
    /\ RenderIdle
    /\ ProtoIdle
    /\ pure_pc = "tags_stored"
    /\ blessed_file = [kind |-> "missing", text |-> <<>>]
    /\ loaded_tags = {}
    /\ stored_tags \in StoredTags
    /\ validated_tags = <<>>
    /\ written_tags = <<>>
    /\ reloaded_tags = <<>>
    /\ html_doc = NoneDict
    /\ extracted = <<>>

\* Bookmark.model_validate(item): the validator runs on the stored value
ValidateTags ==
    /\ pure_pc = "tags_stored"
    /\ pure_pc' = "tags_validated"
    /\ validated_tags' = split_tags(stored_tags)
    /\ UNCHANGED <<blessed_file, loaded_tags, stored_tags, written_tags,
                   reloaded_tags, html_doc, extracted>>
    /\ UNCHANGED <<flow_vars, batch_vars, fetch_vars, render_vars, proto_vars>>

SaveTags_comma ==
    /\ pure_pc = "tags_validated"
    /\ pure_pc' = "tags_saved"
    /\ written_tags' = str_join(<<",">>, validated_tags)
    /\ UNCHANGED <<blessed_file, loaded_tags, stored_tags, validated_tags,
                   reloaded_tags, html_doc, extracted>>
    /\ UNCHANGED <<flow_vars, batch_vars, fetch_vars, render_vars, proto_vars>>

\* save_results: the dumped tags list is joined and written
SaveTags ==
    /\ pure_pc = "tags_validated"
    /\ pure_pc' = "tags_saved"
    /\ written_tags' = str_join(<<" ">>, validated_tags)
    /\ UNCHANGED <<blessed_file, loaded_tags, stored_tags, validated_tags,
                   reloaded_tags, html_doc, extracted>>
    /\ UNCHANGED <<flow_vars, batch_vars, fetch_vars, render_vars, proto_vars>>

\* load_bookmarks on the written file, then Bookmark.model_validate: the
\* written value is a string
ReloadTags ==
    /\ pure_pc = "tags_saved"
    /\ pure_pc' = "tags_reloaded"
    /\ reloaded_tags' = split_tags([kind |-> "str", value |-> written_tags])
    /\ UNCHANGED <<blessed_file, loaded_tags, stored_tags, validated_tags,
                   written_tags, html_doc, extracted>>
    /\ UNCHANGED <<flow_vars, batch_vars, fetch_vars, render_vars, proto_vars>>

NextTags ==
    \/ ValidateTags
    \/ SaveTags
    \/ ReloadTags

SpecTags == InitTags /\ [][NextTags]_vars

\* the maximal whitespace-free stretches of s, as pairs of first and last
\* position
Runs(s) ==
    {p \in (1..Len(s)) \X (1..Len(s)) :
        /\ p[1] <= p[2]
        /\ \A k \in p[1]..p[2] : s[k] \notin Whitespace
        /\ p[1] = 1 \/ s[p[1] - 1] \in Whitespace
        /\ p[2] = Len(s) \/ s[p[2] + 1] \in Whitespace}

\* words is the list of the stretches of s, from left to right
IsWordsOf(words, s) ==
    /\ Len(words) = Cardinality(Runs(s))
    /\ \A p \in Runs(s) :
        words[Cardinality({q \in Runs(s) : q[1] <= p[1]})]
            = SubSeq(s, p[1], p[2])

RECURSIVE TotalLen(_)
TotalLen(tags) ==
    IF tags = <<>> THEN 0 ELSE Len(Head(tags)) + TotalLen(Tail(tags))

\* where tag k starts in the tags joined with one separator character
StartOf(tags, k) == TotalLen(SubSeq(tags, 1, k - 1)) + k

\* written is the tags, in order, with exactly one space between neighbours
IsJoinedBySingleSpaces(written, tags) ==
    IF tags = <<>>
    THEN written = <<>>
    ELSE /\ Len(written) = TotalLen(tags) + Len(tags) - 1
         /\ \A k \in DOMAIN tags :
             /\ SubSeq(written, StartOf(tags, k),
                       StartOf(tags, k) + Len(tags[k]) - 1) = tags[k]
             /\ k < Len(tags) =>
                 written[StartOf(tags, k) + Len(tags[k])] = " "

\* C34: validation turns the stored tags value into a list: None gives the
\* empty list, a list is kept as it is, a string is split on whitespace (an
\* empty or whitespace-only string gives the empty list); save_results
\* writes the list back as its elements joined by single spaces.
C34_TagsSplitAndJoined ==
    /\ pure_pc \in {"tags_validated", "tags_saved", "tags_reloaded"} =>
        /\ stored_tags.kind = "None" => validated_tags = <<>>
        /\ stored_tags.kind = "list" => validated_tags = stored_tags.value
        /\ stored_tags.kind = "str" =>
            /\ IsWordsOf(validated_tags, stored_tags.value)
            /\ (\A k \in DOMAIN stored_tags.value :
                    stored_tags.value[k] \in Whitespace)
                => validated_tags = <<>>
    /\ pure_pc \in {"tags_saved", "tags_reloaded"} =>
        IsJoinedBySingleSpaces(written_tags, validated_tags)

C34_Witness ==
    /\ pure_pc = "tags_saved"
    /\ stored_tags = [kind |-> "str", value |-> <<"a", " ", "\n", "b">>]
    /\ validated_tags = <<(<<"a">>), (<<"b">>)>>
    /\ written_tags = <<"a", " ", "b">>

\* no tag is empty or holds whitespace
Clean(tags) ==
    \A k \in DOMAIN tags :
        /\ tags[k] # <<>>
        /\ \A i \in DOMAIN tags[k] : tags[k][i] \notin Whitespace

HasWhitespace(tag) == \E i \in DOMAIN tag : tag[i] \in Whitespace

RECURSIVE WordCount(_)
\* how many whitespace-free stretches the tags hold together
WordCount(tags) ==
    IF tags = <<>> THEN 0
    ELSE Cardinality(Runs(Head(tags))) + WordCount(Tail(tags))

\* the positions of the reloaded list that hold the stretches of saved tag k
PiecesOf(k) ==
    {p \in DOMAIN reloaded_tags :
        /\ p > WordCount(SubSeq(validated_tags, 1, k - 1))
        /\ p <= WordCount(SubSeq(validated_tags, 1, k))}

\* C38 as stated: saving and loading again gives the same tag list when no
\* tag is empty or holds whitespace, and every tag that holds whitespace
\* comes back as several tags.
C38_SpacedTagBecomesSeveral ==
    pure_pc = "tags_reloaded" =>
        /\ Clean(validated_tags) => reloaded_tags = validated_tags
        /\ \A k \in DOMAIN validated_tags :
            HasWhitespace(validated_tags[k]) =>
                Cardinality(PiecesOf(k)) >= 2

\* C38, amended: saving and loading again gives the same tag list when no
\* tag is empty or holds whitespace; in general the list that comes back is
\* the whitespace-free stretches of each saved tag, in order, so a tag that
\* holds whitespace never comes back as itself: it comes back as several
\* tags, as one shorter tag, or as none.
C38_RoundTripOfTags ==
    pure_pc = "tags_reloaded" =>
        /\ Clean(validated_tags) => reloaded_tags = validated_tags
        /\ Len(reloaded_tags) = WordCount(validated_tags)
        /\ \A k \in DOMAIN validated_tags :
            /\ IsWordsOf(
                   [i \in 1..Cardinality(PiecesOf(k)) |->
                       reloaded_tags[
                           WordCount(SubSeq(validated_tags, 1, k - 1)) + i]],
                   validated_tags[k])
            /\ HasWhitespace(validated_tags[k]) =>
                validated_tags[k] \notin Range(reloaded_tags)

C38_Witness ==
    /\ pure_pc = "tags_reloaded"
    /\ validated_tags = <<(<<"a", " ", "a">>), (<<"a", "a", " ">>)>>
    /\ reloaded_tags = <<(<<"a">>), (<<"a">>), (<<"a", "a">>)>>

-----------------------------------------------------------------------------
(* extract_main_content on its own                                           *)

\* most nodes below the body of a document
MaxNodes == 4

\* names of the elements and the strings of the documents tried
ElementTags == {"article", "main", "nav"}
NodeTexts == {<<"A">>, <<" ", "B", " ">>, <<" ">>}

RECURSIVE Trees(_)
RECURSIVE Forests(_)
\* the trees of exactly n nodes
Trees(n) ==
    IF n = 1
    THEN {Text(t) : t \in NodeTexts} \cup
         {Element(g, <<>>) : g \in ElementTags}
    ELSE [tag : ElementTags, text : {<<>>}, kids : Forests(n - 1)]

\* the lists of trees of n nodes together
Forests(n) ==
    IF n = 0 THEN {<<>>}
    ELSE UNION {{<<t>> \o f : t \in Trees(k), f \in Forests(n - k)} :
                   k \in 1..n}

InitExtract ==
    /\ FlowIdle
    /\ BatchIdle
    /\ FetchIdle
    /\ RenderIdle
    /\ ProtoIdle
    /\ pure_pc = "parsed"
    /\ blessed_file = [kind |-> "missing", text |-> <<>>]
    /\ loaded_tags = {}
    /\ stored_tags = NoneDict
    /\ validated_tags = <<>>
    /\ written_tags = <<>>
    /\ reloaded_tags = <<>>
    /\ \/ html_doc = EmptyDocument
       \/ html_doc = Document(<<>>)
       \/ \E n \in 1..MaxNodes : \E k \in 1..n :
            \E t \in Trees(k), f \in Forests(n - k) :
                html_doc = Document(<<t>> \o f)
    /\ extracted = <<>>

CallExtractMainContent ==
    /\ pure_pc = "parsed"
    /\ pure_pc' = "extracted"
    /\ extracted' = main_content(html_doc)
    /\ UNCHANGED <<blessed_file, loaded_tags, stored_tags, validated_tags,
                   written_tags, reloaded_tags, html_doc>>
    /\ UNCHANGED <<flow_vars, batch_vars, fetch_vars, render_vars, proto_vars>>

NextExtract == CallExtractMainContent

SpecExtract == InitExtract /\ [][NextExtract]_vars

RECURSIVE PathsOf(_)
\* the nodes at and below a node, each as the list of child positions that
\* leads to it
PathsOf(node) ==
    {<<>>} \cup
    UNION {{<<i>> \o p : p \in PathsOf(node.kids[i])} :
              i \in DOMAIN node.kids}

RECURSIVE NodeAt(_, _)
NodeAt(node, path) ==
    IF path = <<>> THEN node
    ELSE NodeAt(node.kids[Head(path)], Tail(path))

IsPrefix(p, q) == Len(p) <= Len(q) /\ SubSeq(q, 1, Len(p)) = p

\* p comes before q in document order
Precedes(p, q) ==
    \/ p # q /\ IsPrefix(p, q)
    \/ \E n \in 1..Len(p) :
        /\ n <= Len(q)
        /\ SubSeq(p, 1, n - 1) = SubSeq(q, 1, n - 1)
        /\ p[n] < q[n]

\* neither the node at p nor a node above it has a removed name
Kept(p) ==
    \A n \in 1..Len(p) :
        NodeAt(html_doc, SubSeq(p, 1, n)).tag \notin Removed

\* the nodes of the document that are left after the removal
KeptPaths == {p \in PathsOf(html_doc) : Kept(p)}

\* the elements of a name among them
ElementsNamed(name) ==
    {p \in KeptPaths : NodeAt(html_doc, p).tag = name}

\* the string without the whitespace around it
Stripped(string) ==
    CHOOSE w \in {SubSeq(string, i, j) :
                     i \in 1..Len(string), j \in 1..Len(string)} :
        StrippedLine(w, string)

\* text is the strings left at and below p, in document order, each without
\* the whitespace around it, the blank ones left out, one space between them
IsTextOf(text, p) ==
    LET S == {q \in KeptPaths :
                 /\ IsPrefix(p, q)
                 /\ NodeAt(html_doc, q).tag = "#text"
                 /\ \E k \in DOMAIN NodeAt(html_doc, q).text :
                     NodeAt(html_doc, q).text[k] \notin Whitespace}
        L == [k \in 1..Cardinality(S) |->
                 LET q == CHOOSE r \in S :
                         Cardinality({o \in S : Precedes(o, r)}) = k - 1
                 IN  Stripped(NodeAt(html_doc, q).text)]
    IN  IsJoinedBySingleSpaces(text, L)

\* p is the first of the elements ps
IsFirst(p, ps) == p \in ps /\ \A q \in ps : ~Precedes(q, p)

\* C33: with the script, style, header, footer and nav elements removed,
\* extract_main_content returns the text of the first article element if
\* there is one, else of the first main element, else of the body, else the
\* empty string; a document with an article and a main of different text
\* gives the text of the article.
C33_ArticleThenMainThenBody ==
    pure_pc = "extracted" =>
        LET articles == ElementsNamed("article")
            mains == ElementsNamed("main")
            bodies == ElementsNamed("body")
        IN  /\ articles # {} =>
                \E p \in articles :
                    IsFirst(p, articles) /\ IsTextOf(extracted, p)
            /\ articles = {} /\ mains # {} =>
                \E p \in mains :
                    IsFirst(p, mains) /\ IsTextOf(extracted, p)
            /\ articles = {} /\ mains = {} /\ bodies # {} =>
                \E p \in bodies : IsTextOf(extracted, p)
            /\ articles = {} /\ mains = {} /\ bodies = {} =>
                extracted = <<>>

C33_Witness ==
    /\ pure_pc = "extracted"
    /\ html_doc = Document(<<Element("main", <<Text(<<" ", "B", " ">>)>>),
                             Element("article", <<Text(<<"A">>)>>)>>)
    /\ extracted = <<"A">>

====
